---- MODULE Spec2Model ----
(***************************************************************************)
(* Architecture Graph Engine.                                              *)
(* src/index.tsx, first snapshot (lines 1-676): the validation adapter     *)
(* (validateGraph, detectCycles, validateNode, checkLayerViolations), the  *)
(* use cases in front of it, the TypeScript/Python generator and the       *)
(* metrics adapter, as functions of an ArchitectureGraph.                  *)
(* src/index.tsx, second snapshot (lines 1450-1952): InMemoryGraphAdapter  *)
(* and ConnectNodesUseCase, as a state machine over the stored graph.      *)
(* src/unnamed/part_002: the composition-root generator.                   *)
(***************************************************************************)
EXTENDS Integers, Sequences, FiniteSets, TLC

VARIABLES
  graph,       \* the ArchitectureGraph handed to the adapter
  called,      \* the method that has run on it, "none" before the call
  cycles,      \* what detectCycles returned
  visitOrder,  \* the ids in the order detectCycles first reached them
  violations,  \* what checkLayerViolations returned
  result,      \* what validateGraph returned
  outcome,     \* how a use case call ended: returned or threw
  metrics,     \* what calculateMetrics returned
  now,         \* the system clock read by new Date()
  generated,   \* the texts the code generator returned, in call order
  store,       \* InMemoryGraphAdapter.graph: the stored nodes and edges
  lastError,   \* the error the last call on the store threw, NoError if none
  machine,     \* a depth-first search in progress: its loop position and stack
  calls,       \* the ConnectNodesUseCase.execute calls in flight, by position
  observed,    \* the graphs that listeners and getGraph callers have seen
  connectionMode, \* the canvas' connection mode: <<>> for null, else one record
  selectedNode    \* the selected node: <<>> for null, else one node

\* the variables of searches in progress, calls in flight and the editor
procs == <<machine, calls, observed, connectionMode, selectedNode>>

\* the variables of the use cases, generators, metrics and graph store
others == <<outcome, metrics, now, generated, store, lastError,
            machine, calls, observed, connectionMode, selectedNode>>

vars == <<graph, called, cycles, visitOrder, violations, result,
          outcome, metrics, now, generated, store, lastError,
          machine, calls, observed, connectionMode, selectedNode>>

\* ------------------------------------------------------------------------
\* Bounds of the model
\* ------------------------------------------------------------------------
\* longest edge list of a graph with both edge types (cycle detection)
MaxEdges == 3
\* longest edge list of a graph with dependency edges only
MaxDepEdges == 4
\* longest edge list of a graph handed to the validation pass
MaxValEdges == 2

\* Node ids are opaque strings that the code only compares for equality, so
\* every graph is a renaming of one whose node list is a prefix of IdOrder.
\* Edge endpoints range over all of NodeIds: an endpoint that is not in the
\* node list is a dangling reference.
IdOrder == <<"A", "B", "C">>
NodeIds == {IdOrder[i] : i \in 1..Len(IdOrder)}
\* ids used by the graphs of the validation pass
ValIdOrder == <<"A", "B">>
ValIds == {ValIdOrder[i] : i \in 1..Len(ValIdOrder)}

\* ------------------------------------------------------------------------
\* Types (src/index.tsx:9-11)
\* ------------------------------------------------------------------------
NodeType == {"port", "adapter", "usecase", "controller", "entity"}
EdgeType == {"dependency", "implements"}
LayerType == {"domain", "application", "infrastructure", "interface"}

\* Edge ids: the i-th edge of a list carries the id e<i> (ids are unique)
EdgeIdOf(i) == "e" \o ToString(i)

\* ------------------------------------------------------------------------
\* Sequence helpers (Array.prototype.indexOf / slice / filter)
\* ------------------------------------------------------------------------
\* path.indexOf(x): first position of x, 1-based; 0 stands for -1
IndexOf(s, x) ==
  IF \E i \in 1..Len(s) : s[i] = x
  THEN CHOOSE i \in 1..Len(s) : s[i] = x /\ \A j \in 1..(i-1) : s[j] # x
  ELSE 0

Range(s) == {s[i] : i \in 1..Len(s)}

\* ------------------------------------------------------------------------
\* detectCycles (src/index.tsx:235-285)
\* ------------------------------------------------------------------------
\* adj.get(node) ?? []
AdjGet(adj, n) == IF n \in DOMAIN adj THEN adj[n] ELSE <<>>

\* lines 236-247: a key per node, then the dependency edges in list order;
\* an edge whose source has no key is dropped
RECURSIVE AdjFillOverwrite(_, _, _)
AdjFillOverwrite(adj, es, i) ==
  IF i > Len(es) THEN adj
  ELSE LET e == es[i] IN
       IF e.source \in DOMAIN adj
       THEN AdjFillOverwrite([adj EXCEPT ![e.source] = <<e.target>>], es, i + 1)
       ELSE AdjFillOverwrite(adj, es, i + 1)

RECURSIVE AdjFill(_, _, _)
AdjFill(adj, es, i) ==
  IF i > Len(es) THEN adj
  ELSE LET e == es[i] IN
       IF e.source \in DOMAIN adj
       THEN AdjFill([adj EXCEPT ![e.source] = Append(@, e.target)], es, i + 1)
       ELSE AdjFill(adj, es, i + 1)

IsDependency(e) == e.type = "dependency"

BuildAdjNoFilter(g) ==
  AdjFill([n \in {g.nodes[i].id : i \in 1..Len(g.nodes)} |-> <<>>], g.edges, 1)

BuildAdj(g) ==
  AdjFill([n \in {g.nodes[i].id : i \in 1..Len(g.nodes)} |-> <<>>],
          SelectSeq(g.edges, IsDependency), 1)

\* line 257: [...path.slice(cycleStart), node]
CycleFromWholePath(path, cycleStart, node) == Append(path, node)

CycleFrom(path, cycleStart, node) ==
  Append(SubSeq(path, cycleStart, Len(path)), node)

\* lines 253-276: the recursive closure dfs; st holds the three collections
\* it closes over (cycles, visited, recursionStack)
RECURSIVE dfs(_, _, _, _)
RECURSIVE dfsNeighbors(_, _, _, _, _)
dfs(adj, node, path, st) ==
  IF node \in st.recursionStack
  THEN LET cycleStart == IndexOf(path, node) IN
       IF cycleStart # 0
       THEN [st EXCEPT !.cycles = Append(@, CycleFrom(path, cycleStart, node))]
       ELSE st
  ELSE IF node \in st.visited
  THEN st
  ELSE LET st1 == [st EXCEPT !.visited = @ \cup {node},
                             !.recursionStack = @ \cup {node},
                             !.order = Append(@, node)]
           st2 == dfsNeighbors(adj, AdjGet(adj, node), 1, Append(path, node), st1)
       IN [st2 EXCEPT !.recursionStack = @ \ {node}]

dfsNeighbors(adj, neighbors, i, path, st) ==
  IF i > Len(neighbors) THEN st
  ELSE dfsNeighbors(adj, neighbors, i + 1, path, dfs(adj, neighbors[i], path, st))

\* lines 278-282: one dfs per node not yet visited, in node-list order
dfsFirstRootOnly(adj, ns, i, st) ==
  IF Len(ns) = 0 THEN st ELSE dfs(adj, ns[1].id, <<>>, st)

RECURSIVE dfsRoots(_, _, _, _)
dfsRoots(adj, ns, i, st) ==
  IF i > Len(ns) THEN st
  ELSE IF ns[i].id \in st.visited
  THEN dfsRoots(adj, ns, i + 1, st)
  ELSE dfsRoots(adj, ns, i + 1, dfs(adj, ns[i].id, <<>>, st))

\* the whole traversal; order is the sequence in which ids entered visited
\* (ghost field, read by no branch of the code)
detectCyclesRun(g) ==
  dfsRoots(BuildAdj(g), g.nodes, 1,
           [cycles |-> <<>>, visited |-> {}, recursionStack |-> {}, order |-> <<>>])

detectCycles(g) == detectCyclesRun(g).cycles

\* ------------------------------------------------------------------------
\* validateNode (src/index.tsx:287-334), getExpectedLayer (369-378)
\* ------------------------------------------------------------------------
\* Names are sequences of characters. String.prototype.endsWith:
StartsWith(name, suffix) ==
  /\ Len(name) >= Len(suffix)
  /\ SubSeq(name, 1, Len(suffix)) = suffix

EndsWith(name, suffix) ==
  /\ Len(name) >= Len(suffix)
  /\ SubSeq(name, Len(name) - Len(suffix) + 1, Len(name)) = suffix

SuffixPort == <<"P", "o", "r", "t">>
SuffixAdapter == <<"A", "d", "a", "p", "t", "e", "r">>
SuffixUseCase == <<"U", "s", "e", "C", "a", "s", "e">>

\* an absent optional field (nodeId, edgeId)
Undefined == "undefined"

MkError(id, type, message, nodeId, edgeId, severity) ==
  [id |-> id, type |-> type, message |-> message,
   nodeId |-> nodeId, edgeId |-> edgeId, severity |-> severity]

getExpectedLayer(nodeType) ==
  CASE nodeType = "entity" -> "domain"
    [] nodeType = "port" -> "domain"
    [] nodeType = "usecase" -> "application"
    [] nodeType = "adapter" -> "infrastructure"
    [] nodeType = "controller" -> "interface"

validateNode(node) ==
  LET portNaming ==
        IF node.type = "port" /\ ~EndsWith(node.name, SuffixPort)
        THEN <<MkError(<<"port_naming", node.id>>, "naming_violation",
                       <<"Port names should end with", SuffixPort>>,
                       node.id, Undefined, "warning")>>
        ELSE <<>>
      adapterNaming ==
        IF node.type = "adapter" /\ ~EndsWith(node.name, SuffixAdapter)
        THEN <<MkError(<<"adapter_naming", node.id>>, "naming_violation",
                       <<"Adapter names should end with", SuffixAdapter>>,
                       node.id, Undefined, "warning")>>
        ELSE <<>>
      usecaseNaming ==
        IF node.type = "usecase" /\ ~EndsWith(node.name, SuffixUseCase)
        THEN <<MkError(<<"usecase_naming", node.id>>, "naming_violation",
                       <<"Use case names should end with", SuffixUseCase>>,
                       node.id, Undefined, "warning")>>
        ELSE <<>>
      expectedLayer == getExpectedLayer(node.type)
      layerConsistency ==
        IF node.layer # expectedLayer
        THEN <<MkError(<<"layer_consistency", node.id>>, "layer_violation",
                       <<node.type, "should be in", expectedLayer, "not", node.layer>>,
                       node.id, Undefined, "error")>>
        ELSE <<>>
  IN portNaming \o adapterNaming \o usecaseNaming \o layerConsistency

\* ------------------------------------------------------------------------
\* checkLayerViolations (src/index.tsx:336-367)
\* ------------------------------------------------------------------------
\* graph.nodes.find(n => n.id === id): the first node with that id
HasNode(g, id) == \E i \in 1..Len(g.nodes) : g.nodes[i].id = id

FindNode(g, id) ==
  g.nodes[CHOOSE i \in 1..Len(g.nodes) :
            g.nodes[i].id = id /\ \A j \in 1..(i-1) : g.nodes[j].id # id]

\* lines 340-345
allowedDepsDomainFree(layer) ==
  CASE layer = "domain" -> LayerType
    [] layer = "application" -> {"domain"}
    [] layer = "infrastructure" -> {"domain", "application"}
    [] layer = "interface" -> {"application", "domain"}

allowedDeps(layer) ==
  CASE layer = "domain" -> {}
    [] layer = "application" -> {"domain"}
    [] layer = "infrastructure" -> {"domain", "application"}
    [] layer = "interface" -> {"application", "domain"}

\* `${node.name}` in a template string: a node without a name gives "undefined"
NameText(node) ==
  IF "name" \in DOMAIN node THEN node.name
  ELSE <<"u", "n", "d", "e", "f", "i", "n", "e", "d">>

\* lines 347-364: the body of the forEach, for one edge
LayerViolationOf(g, edge) ==
  IF edge.type # "dependency" THEN <<>>
  ELSE IF ~HasNode(g, edge.source) \/ ~HasNode(g, edge.target) THEN <<>>
  ELSE LET src == FindNode(g, edge.source)
           dst == FindNode(g, edge.target)
       IN IF dst.layer \notin allowedDeps(src.layer)
          THEN <<MkError(<<"layer_violation", edge.id>>, "layer_violation",
                         <<"Invalid dependency", src.layer, dst.layer,
                           NameText(src), NameText(dst)>>,
                         Undefined, edge.id, "error")>>
          ELSE <<>>

\* graph.edges.forEach, from edge i on: the violations pushed, in edge order
RECURSIVE LayerViolationsFrom(_, _)
LayerViolationsFrom(g, i) ==
  IF i > Len(g.edges) THEN <<>>
  ELSE LayerViolationOf(g, g.edges[i]) \o LayerViolationsFrom(g, i + 1)

checkLayerViolations(g) == LayerViolationsFrom(g, 1)

\* ------------------------------------------------------------------------
\* validateGraph (src/index.tsx:175-233)
\* ------------------------------------------------------------------------
IsError(v) == v.severity = "error"
IsWarning(v) == v.severity = "warning"

\* lines 187-194
CycleErrors(cs) ==
  [i \in 1..Len(cs) |->
     MkError(<<"cycle", ToString(i - 1)>>, "circular_dependency",
             <<"Circular dependency detected", cs[i]>>,
             Undefined, Undefined, "error")]

\* lines 197-201: validateNode on every node, from node i on, in node order
RECURSIVE NodeFindingsFrom(_, _)
NodeFindingsFrom(g, i) ==
  IF i > Len(g.nodes) THEN <<>>
  ELSE validateNode(g.nodes[i]) \o NodeFindingsFrom(g, i + 1)

\* lines 204-214
SelfLoopOf(g, edge) ==
  IF edge.source = edge.target
  THEN <<MkError(<<"self", edge.id>>, "validation_error",
                 <<"Self-referencing edge detected">>,
                 Undefined, edge.id, "error")>>
  ELSE <<>>

RECURSIVE SelfLoopsFrom(_, _)
SelfLoopsFrom(g, i) ==
  IF i > Len(g.edges) THEN <<>>
  ELSE SelfLoopOf(g, g.edges[i]) \o SelfLoopsFrom(g, i + 1)

\* For a graph whose nodes and edges are lists of complete records no step
\* of the try block throws, so the catch branch (lines 221-232) is not taken.
validateGraph(g) ==
  LET layerViolations == checkLayerViolations(g)
      namingErrors == NodeFindingsFrom(g, 1)
      errors == SelectSeq(layerViolations, IsError)
                \o CycleErrors(detectCycles(g))
                \o SelectSeq(namingErrors, IsError)
                \o SelfLoopsFrom(g, 1)
      warnings == SelectSeq(layerViolations, IsWarning)
                  \o SelectSeq(namingErrors, IsWarning)
  IN [isValid |-> Len(errors) = 0, errors |-> errors, warnings |-> warnings]

\* ------------------------------------------------------------------------
\* Inputs
\* ------------------------------------------------------------------------
\* sequences of length 0..n over S
SeqsUpTo(S, n) == UNION {[1..k -> S] : k \in 0..n}

NameOrderUseCase == <<"O", "r", "d", "e", "r", "U", "s", "e", "C", "a", "s", "e">>
NamePaymentGateway ==
  <<"P", "a", "y", "m", "e", "n", "t", "G", "a", "t", "e", "w", "a", "y">>
NameStripeAdapter ==
  <<"S", "t", "r", "i", "p", "e", "A", "d", "a", "p", "t", "e", "r">>

NameOf(id) ==
  CASE id = "A" -> NameOrderUseCase
    [] id = "B" -> NamePaymentGateway
    [] OTHER -> NameStripeAdapter

MkNode(id, type, layer) ==
  [id |-> id, name |-> NameOf(id), type |-> type, layer |-> layer]

\* the node lists of cycle detection: a prefix of IdOrder, each node with
\* the type and layer of its name
DefaultType(id) ==
  CASE id = "A" -> "usecase" [] id = "B" -> "port" [] OTHER -> "adapter"

DefaultNodes(k) ==
  [i \in 1..k |->
     MkNode(IdOrder[i], DefaultType(IdOrder[i]), getExpectedLayer(DefaultType(IdOrder[i])))]

\* the node lists of the validation pass: a prefix of ValIdOrder, every
\* type in every layer
AttrNodes(attrs) ==
  [i \in 1..Len(attrs) |-> MkNode(ValIdOrder[i], attrs[i].type, attrs[i].layer)]

EdgeShapes(ids, types) == [source : ids, target : ids, type : types]

MkEdges(shapes) ==
  [i \in 1..Len(shapes) |->
     [id |-> EdgeIdOf(i), source |-> shapes[i].source,
      target |-> shapes[i].target, type |-> shapes[i].type]]

NoResult == [isValid |-> TRUE, errors |-> <<>>, warnings |-> <<>>]

NoOutcome == [threw |-> FALSE, error |-> "none", rulesRun |-> <<>>]

\* ------------------------------------------------------------------------
\* The number type: an IEEE-754 double. A positive double is
\* 1.b2...b53 * 2^exp, kept as its 53 significand bits, first bit 1, and
\* exp; zero has no bits. Only naturals and their quotients and products
\* occur (line 633), so there is no sign, infinity or NaN.
\* ------------------------------------------------------------------------
Precision == 53

Float64Zero == [exp |-> 0, bits |-> <<>>]

\* the binary digits of a natural, highest first; none for 0
RECURSIVE BitsOf(_)
BitsOf(n) == IF n = 0 THEN <<>> ELSE Append(BitsOf(n \div 2), n % 2)

\* the last w binary digits of a natural
BitsFixed(v, w) == [j \in 1..w |-> (v \div 2^(w - j)) % 2]

\* the natural with these binary digits (at most 13 of them at a time)
RECURSIVE ValueOf(_)
ValueOf(bits) ==
  IF bits = <<>> THEN 0
  ELSE 2 * ValueOf(SubSeq(bits, 1, Len(bits) - 1)) + bits[Len(bits)]

Zeros(k) == [i \in 1..k |-> 0]

AllOnes(bits) == \A i \in 1..Len(bits) : bits[i] = 1

\* bits + 1, for bits that are not all ones: the last 0 becomes 1 and the
\* ones after it 0
Increment(bits) ==
  LET p == CHOOSE i \in 1..Len(bits) :
             bits[i] = 0 /\ \A j \in (i + 1)..Len(bits) : bits[j] = 1
  IN [i \in 1..Len(bits) |->
        IF i < p THEN bits[i] ELSE IF i = p THEN 1 ELSE 0]

\* rounding toward zero: the digits after the 53rd are dropped
RoundTowardZero(sig, sticky, exp) ==
  [exp |-> exp, bits |-> SubSeq(sig, 1, Precision)]

\* round to nearest, ties to even: sig holds the first 54 digits of the
\* exact value, sticky says whether a later digit is 1
RoundNearestEven(sig, sticky, exp) ==
  LET kept == SubSeq(sig, 1, Precision)
      up == sig[Precision + 1] = 1 /\ (sticky \/ kept[Precision] = 1)
  IN IF ~up THEN [exp |-> exp, bits |-> kept]
     ELSE IF AllOnes(kept)
     THEN [exp |-> exp + 1, bits |-> <<1>> \o Zeros(Precision - 1)]
     ELSE [exp |-> exp, bits |-> Increment(kept)]

\* a natural as a double (exact below 2^53)
Float64OfNat(n) ==
  IF n = 0 THEN Float64Zero
  ELSE [exp |-> Len(BitsOf(n)) - 1,
        bits |-> BitsOf(n) \o Zeros(Precision - Len(BitsOf(n)))]

\* 2^k modulo den
RECURSIVE Pow2Mod(_, _)
Pow2Mod(k, den) ==
  IF k <= 20 THEN (2^k) % den
  ELSE (((2^20) % den) * Pow2Mod(k - 20, den)) % den

\* long division: what is left of r after k binary digits of r / den, and
\* digit k
RemainderAfter(r, den, k) == (r * Pow2Mod(k, den)) % den

QuotientDigit(r, den, k) == (2 * RemainderAfter(r, den, k - 1)) \div den

\* a / b on doubles that hold the naturals a and b, b > 0: the digits of
\* the whole part, then those of the long division of the rest, up to 54
\* digits from the first 1 on
Float64Div(a, b) ==
  IF a = 0 THEN Float64Zero
  ELSE LET whole == BitsOf(a \div b)
           r == a % b
           lead == IF whole # <<>> THEN 0
                   ELSE (CHOOSE k \in 1..b : QuotientDigit(r, b, k) = 1 /\
                           \A j \in 1..(k - 1) : QuotientDigit(r, b, j) = 0) - 1
           count == lead + Precision + 1 - Len(whole)
           sig == whole \o [i \in 1..(Precision + 1 - Len(whole)) |->
                              QuotientDigit(r, b, lead + i)]
       IN RoundNearestEven(sig, RemainderAfter(r, b, count) # 0,
                           IF whole # <<>> THEN Len(whole) - 1
                           ELSE 0 - (lead + 1))

\* the digits of bits * n, 13 digits of bits at a time from the last on,
\* with the carry of the digits after them
RECURSIVE TimesFrom(_, _, _, _)
TimesFrom(bits, n, i, carry) ==
  IF i = 0 THEN BitsOf(carry)
  ELSE LET w == IF i < 13 THEN i ELSE 13
           t == ValueOf(SubSeq(bits, i - w + 1, i)) * n + carry
       IN TimesFrom(bits, n, i - w, t \div 2^w) \o BitsFixed(t % 2^w, w)

\* x * n for a double x and a double that holds the natural n
Float64Mul(x, n) ==
  IF x = Float64Zero \/ n = 0 THEN Float64Zero
  ELSE LET product == TimesFrom(x.bits, n, Precision, 0)
           extra == Len(product) - Precision
           sig == SubSeq(product, 1, Precision + 1)
       IN RoundNearestEven(IF extra = 0 THEN Append(product, 0) ELSE sig,
                           \E i \in (Precision + 2)..Len(product) :
                             product[i] = 1,
                           x.exp + extra)

NoMetrics ==
  [totalNodes |-> 0, totalEdges |-> 0, complexity |-> Float64Zero,
   maxDepth |-> 0, cycleCount |-> 0, layerViolations |-> 0]

EmptyStore == [nodes |-> <<>>, edges |-> <<>>]

NoError == [message |-> "none", id |-> "none"]

\* no search in progress
NoMachine ==
  [mode |-> "none", root |-> 1, stack |-> <<>>, visited |-> {},
   recursionStack |-> {}, cycles |-> <<>>, maxDepth |-> 0, steps |-> 0]

NoCallYet ==
  /\ called = "none"
  /\ cycles = <<>>
  /\ visitOrder = <<>>
  /\ violations = <<>>
  /\ result = NoResult
  /\ outcome = NoOutcome
  /\ metrics = NoMetrics
  /\ now = 0
  /\ generated = <<>>
  /\ lastError = NoError
  /\ machine = NoMachine
  /\ calls = <<>>
  /\ observed = {}
  /\ connectionMode = <<>>
  /\ selectedNode = <<>>

NothingCalled == NoCallYet /\ store = EmptyStore

\* graphs with both edge types
InitCycles ==
  /\ \E k \in 0..Len(IdOrder),
        shapes \in SeqsUpTo(EdgeShapes(NodeIds, EdgeType), MaxEdges) :
       graph = [nodes |-> DefaultNodes(k), edges |-> MkEdges(shapes)]
  /\ NothingCalled

\* graphs with dependency edges only, one edge longer
InitCyclesDep ==
  /\ \E k \in 0..Len(IdOrder),
        shapes \in SeqsUpTo(EdgeShapes(NodeIds, {"dependency"}), MaxDepEdges) :
       graph = [nodes |-> DefaultNodes(k), edges |-> MkEdges(shapes)]
  /\ NothingCalled

\* graphs whose nodes have every type and layer
InitValidate ==
  /\ \E attrs \in SeqsUpTo([type : NodeType, layer : LayerType], Len(ValIdOrder)),
        shapes \in SeqsUpTo(EdgeShapes(ValIds, EdgeType), MaxValEdges) :
       graph = [nodes |-> AttrNodes(attrs), edges |-> MkEdges(shapes)]
  /\ NothingCalled

\* ------------------------------------------------------------------------
\* Operations: one call of a method of ArchitectureValidationAdapter on graph
\* ------------------------------------------------------------------------
DetectCyclesCall ==
  /\ called = "none"
  /\ called' = "detectCycles"
  /\ cycles' = detectCycles(graph)
  /\ visitOrder' = detectCyclesRun(graph).order
  /\ UNCHANGED <<graph, violations, result>>
  /\ UNCHANGED others

CheckLayerViolationsCall ==
  /\ called = "none"
  /\ called' = "checkLayerViolations"
  /\ violations' = checkLayerViolations(graph)
  /\ UNCHANGED <<graph, cycles, visitOrder, result>>
  /\ UNCHANGED others

ValidateGraphCall ==
  /\ called = "none"
  /\ called' = "validateGraph"
  /\ result' = validateGraph(graph)
  /\ UNCHANGED <<graph, cycles, visitOrder, violations>>
  /\ UNCHANGED others

NextCycles == DetectCyclesCall

NextValidate == DetectCyclesCall \/ CheckLayerViolationsCall \/ ValidateGraphCall

SpecCycles == InitCycles /\ [][NextCycles]_vars

SpecCyclesDep == InitCyclesDep /\ [][NextCycles]_vars

SpecValidate == InitValidate /\ [][NextValidate]_vars

\* ------------------------------------------------------------------------
\* Graph theory used to state the properties (independent of the traversal)
\* ------------------------------------------------------------------------
NodeIdsOf(g) == {g.nodes[i].id : i \in 1..Len(g.nodes)}

DepEdgeIdx(g) == {i \in 1..Len(g.edges) : g.edges[i].type = "dependency"}
ImplEdgeIdx(g) == {i \in 1..Len(g.edges) : g.edges[i].type = "implements"}

\* x -> y is a dependency edge of g
DepEdge(g, x, y) ==
  \E i \in DepEdgeIdx(g) : g.edges[i].source = x /\ g.edges[i].target = y

\* the number of dependency edges x -> y
DepMultiplicity(g, x, y) ==
  Cardinality({i \in DepEdgeIdx(g) : g.edges[i].source = x /\ g.edges[i].target = y})

\* the non-empty lists of distinct ids
DistinctIdLists ==
  {s \in UNION {[1..k -> NodeIds] : k \in 1..Cardinality(NodeIds)} :
     \A i, j \in 1..Len(s) : i # j => s[i] # s[j]}

Succ(s, i) == IF i = Len(s) THEN s[1] ELSE s[i + 1]

\* s[1] -> s[2] -> ... -> s[Len(s)] -> s[1] is a directed cycle of dependency edges
ClosedWalk(g, s) == \A i \in 1..Len(s) : DepEdge(g, s[i], Succ(s, i))

\* no directed cycle of dependency edges, a self-loop included
DependencyDAG(g) == \A s \in DistinctIdLists : ~ClosedWalk(g, s)

\* the simple cycles on two or more nodes that all exist in the graph
SimpleCycles(g) ==
  {s \in DistinctIdLists :
     /\ Len(s) >= 2
     /\ ClosedWalk(g, s)
     /\ \A i \in 1..Len(s) : s[i] \in NodeIdsOf(g)}

\* c is a closed path along dependency edges: a genuine cycle
GenuineCycle(g, c) ==
  /\ Len(c) >= 2
  /\ c[1] = c[Len(c)]
  /\ \A i \in 1..(Len(c) - 1) : DepEdge(g, c[i], c[i + 1])

\* x -> y is a step of the sequence c
StepOf(c, x, y) == \E i \in 1..(Len(c) - 1) : c[i] = x /\ c[i + 1] = y

\* the sequence c goes round exactly the simple cycle s, once
Traverses(c, s) ==
  /\ Len(c) = Len(s) + 1
  /\ c[1] = c[Len(c)]
  /\ \E r \in 1..Len(s) :
       \A i \in 1..Len(s) : c[i] = s[((r + i - 2) % Len(s)) + 1]

\* ------------------------------------------------------------------------
\* C1: when the dependency edges form a directed acyclic graph, whatever
\* implements edges the graph has besides, detectCycles returns the empty list.
\* ------------------------------------------------------------------------
C1_DagHasNoCycles ==
  (called = "detectCycles" /\ DependencyDAG(graph)) => cycles = <<>>

\* a DAG of two dependency edges that an implements edge closes into a ring
C1_Witness ==
  /\ called = "detectCycles"
  /\ DependencyDAG(graph)
  /\ Len(graph.nodes) = 3
  /\ \E i, j, k \in 1..Len(graph.edges) :
       /\ graph.edges[i].type = "dependency" /\ graph.edges[j].type = "dependency"
       /\ graph.edges[k].type = "implements"
       /\ graph.edges[i].target = graph.edges[j].source
       /\ graph.edges[j].target = graph.edges[k].source
       /\ graph.edges[k].target = graph.edges[i].source
       /\ graph.edges[i].source # graph.edges[j].source
       /\ graph.edges[j].source # graph.edges[k].source
       /\ graph.edges[i].source # graph.edges[k].source
  /\ cycles = <<>>

\* ------------------------------------------------------------------------
\* C2: every sequence detectCycles returns has at least two elements, starts
\* and ends with the same id, and each consecutive pair is a dependency edge.
\* ------------------------------------------------------------------------
C2_ReturnedCyclesAreGenuine ==
  called = "detectCycles" =>
    \A n \in 1..Len(cycles) : GenuineCycle(graph, cycles[n])

\* a cycle reached through a tail: the path is longer than the cycle
C2_Witness ==
  /\ called = "detectCycles"
  /\ graph.nodes # <<>> /\ graph.nodes[1].id = "A"
  /\ \E n \in 1..Len(cycles) : Len(cycles[n]) = 3 /\ cycles[n][1] # "A"

\* ------------------------------------------------------------------------
\* C6: implements edges are invisible to detectCycles: removing any set of
\* them from the graph leaves the returned list unchanged.
\* ------------------------------------------------------------------------
\* g without the edges at the positions in drop
WithoutEdges(g, drop) ==
  LET Keep(i) == i \notin drop
      idx == SelectSeq([i \in 1..Len(g.edges) |-> i], Keep)
  IN [g EXCEPT !.edges = [i \in 1..Len(idx) |-> g.edges[idx[i]]]]

C6_ImplementsInvisible ==
  called = "detectCycles" =>
    \A drop \in SUBSET ImplEdgeIdx(graph) :
      detectCycles(WithoutEdges(graph, drop)) = cycles

\* a dependency cycle with an implements edge in the list before it
C6_Witness ==
  /\ called = "detectCycles"
  /\ cycles # <<>>
  /\ Len(graph.edges) = 3
  /\ graph.edges[1].type = "implements"
  /\ graph.edges[1].source # graph.edges[1].target

\* ------------------------------------------------------------------------
\* C3: detectCycles reports every distinct simple cycle of the dependency
\* edges: for each one a returned sequence goes round exactly that cycle.
\* (Stated as claimed; the traversal does not do this.)
\* ------------------------------------------------------------------------
C3_EverySimpleCycleTraversed ==
  called = "detectCycles" =>
    \A s \in SimpleCycles(graph) : \E n \in 1..Len(cycles) : Traverses(cycles[n], s)

\* C3 as amended: detectCycles does not stop at the first cycle, and every
\* simple cycle on existing nodes is hit by a returned sequence: some returned
\* sequence is a genuine cycle whose closing step is an edge of that cycle.
C3_EverySimpleCycleHit ==
  called = "detectCycles" =>
    \A s \in SimpleCycles(graph) :
      \E n \in 1..Len(cycles) :
        /\ GenuineCycle(graph, cycles[n])
        /\ \E i \in 1..Len(s) :
             /\ cycles[n][Len(cycles[n]) - 1] = s[i]
             /\ cycles[n][Len(cycles[n])] = Succ(s, i)

\* a simple cycle on three nodes that no returned sequence goes round, hit by
\* the sequence reported for a cycle on two of its nodes
C3_Witness ==
  /\ called = "detectCycles"
  /\ Len(cycles) = 1 /\ Len(cycles[1]) = 3
  /\ \E s \in SimpleCycles(graph) :
       /\ Len(s) = 3
       /\ \A n \in 1..Len(cycles) : ~Traverses(cycles[n], s)

\* ------------------------------------------------------------------------
\* C4: nodes A, B, C in that order with dependency edges A->B, B->C, C->A
\* give exactly [[A,B,C,A]]; in general, when the dependency edges hold exactly
\* one simple cycle, exactly one sequence is returned, it goes round that
\* cycle, and it starts and ends at the node of the cycle reached first.
\* (Self-loops are C5's subject: graphs with one on a node are left out.)
\* ------------------------------------------------------------------------
NoSelfDependency(g) ==
  \A i \in DepEdgeIdx(g) :
    g.edges[i].source = g.edges[i].target => g.edges[i].source \notin NodeIdsOf(g)

\* s is the only simple cycle: every other one is a rotation of it, and none
\* of its edges is doubled
OnlySimpleCycle(g, s) ==
  /\ s \in SimpleCycles(g)
  /\ \A t \in SimpleCycles(g) : Traverses(Append(t, t[1]), s)
  /\ \A i \in 1..Len(s) : DepMultiplicity(g, s[i], Succ(s, i)) = 1

\* the element of s that comes first in the sequence order
FirstReached(s, order) ==
  CHOOSE x \in Range(s) :
    \A y \in Range(s) : IndexOf(order, x) <= IndexOf(order, y)

TriangleABC(g) ==
  /\ [i \in 1..Len(g.nodes) |-> g.nodes[i].id] = <<"A", "B", "C">>
  /\ Cardinality(DepEdgeIdx(g)) = 3
  /\ DepEdge(g, "A", "B") /\ DepEdge(g, "B", "C") /\ DepEdge(g, "C", "A")

Findings(r) == r.errors \o r.warnings

\* how many findings of the given type refer to the edge / to the node
CountForEdge(fs, type, edgeId) ==
  Cardinality({n \in 1..Len(fs) : fs[n].type = type /\ fs[n].edgeId = edgeId})

CountForNode(fs, type, nodeId) ==
  Cardinality({n \in 1..Len(fs) : fs[n].type = type /\ fs[n].nodeId = nodeId})

SelfLoopIdx(g) == {i \in 1..Len(g.edges) : g.edges[i].source = g.edges[i].target}

Resolved(g, e) == HasNode(g, e.source) /\ HasNode(g, e.target)

\* ------------------------------------------------------------------------
\* C5: a self-loop edge is never a step of a cycle detectCycles returns and
\* never gives a circular_dependency error; validateGraph reports it exactly
\* once, as a validation_error that refers to the edge.
\* ------------------------------------------------------------------------
C5_SelfLoopNeverACycle ==
  /\ called = "detectCycles" =>
       \A i \in SelfLoopIdx(graph) : \A n \in 1..Len(cycles) :
         ~StepOf(cycles[n], graph.edges[i].source, graph.edges[i].source)
  /\ called = "validateGraph" =>
       \A i \in SelfLoopIdx(graph) :
         /\ \A n \in 1..Len(result.errors) :
              result.errors[n].type = "circular_dependency" =>
                ~StepOf(result.errors[n].message[2],
                        graph.edges[i].source, graph.edges[i].source)
         /\ CountForEdge(Findings(result), "validation_error", graph.edges[i].id) = 1

\* ------------------------------------------------------------------------
\* C7: for a dependency edge between two existing nodes checkLayerViolations
\* gives exactly one layer_violation if the target's layer is outside the
\* source layer's set in the canonical table, and none if it is inside.
\* ------------------------------------------------------------------------
\* the table of the specification and of the repository's own rules file
CanonicalAllowed(layer) ==
  CASE layer = "domain" -> {}
    [] layer = "application" -> {"domain"}
    [] layer = "infrastructure" -> {"domain"}
    [] layer = "interface" -> {"application", "domain"}

C7_CanonicalLayerTable ==
  called = "checkLayerViolations" =>
    \A i \in DepEdgeIdx(graph) :
      Resolved(graph, graph.edges[i]) =>
        CountForEdge(violations, "layer_violation", graph.edges[i].id) =
          IF FindNode(graph, graph.edges[i].target).layer
               \in CanonicalAllowed(FindNode(graph, graph.edges[i].source).layer)
          THEN 0 ELSE 1

\* ------------------------------------------------------------------------
\* C8: in a full validation pass a domain-layer node gets exactly one
\* layer_violation per outgoing dependency edge to an existing node of another
\* layer, and a domain-layer node without outgoing dependency edges gets none.
\* (Stated as claimed.)
\* ------------------------------------------------------------------------
OutDepIdx(g, id) == {i \in DepEdgeIdx(g) : g.edges[i].source = id}

\* the layer_violation findings about the node or about an edge leaving it
LayerViolationsOf(g, r, id) ==
  {n \in 1..Len(Findings(r)) :
     /\ Findings(r)[n].type = "layer_violation"
     /\ \/ Findings(r)[n].nodeId = id
        \/ \E i \in 1..Len(g.edges) :
             g.edges[i].source = id /\ Findings(r)[n].edgeId = g.edges[i].id}

OnePerOutwardEdge(g, r, node) ==
  \A i \in OutDepIdx(g, node.id) :
    (HasNode(g, g.edges[i].target) /\ FindNode(g, g.edges[i].target).layer # "domain")
      => CountForEdge(Findings(r), "layer_violation", g.edges[i].id) = 1

C8_DomainNodeViolations ==
  called = "validateGraph" =>
    \A k \in 1..Len(graph.nodes) :
      graph.nodes[k].layer = "domain" =>
        /\ OnePerOutwardEdge(graph, result, graph.nodes[k])
        /\ OutDepIdx(graph, graph.nodes[k].id) = {} =>
             LayerViolationsOf(graph, result, graph.nodes[k].id) = {}

\* C8 as amended: the second half holds for the domain-layer nodes whose type
\* belongs in the domain layer (entity, port); a node of another type placed
\* in the domain layer gets one layer_violation from validateNode.
C8_DomainNodeViolationsAmended ==
  called = "validateGraph" =>
    \A k \in 1..Len(graph.nodes) :
      graph.nodes[k].layer = "domain" =>
        /\ OnePerOutwardEdge(graph, result, graph.nodes[k])
        /\ OutDepIdx(graph, graph.nodes[k].id) = {} =>
             Cardinality(LayerViolationsOf(graph, result, graph.nodes[k].id)) =
               IF graph.nodes[k].type \in {"entity", "port"} THEN 0 ELSE 1

\* a domain entity with two dependency edges to the same application node:
\* one layer_violation for each of the two edges
C8_Witness ==
  /\ called = "validateGraph"
  /\ Len(graph.nodes) = 2
  /\ graph.nodes[1].layer = "domain" /\ graph.nodes[1].type = "entity"
  /\ graph.nodes[2].layer = "application"
  /\ OutDepIdx(graph, "A") = {1, 2}
  /\ graph.edges[1].target = "B" /\ graph.edges[2].target = "B"
  /\ CountForEdge(result.errors, "layer_violation", "e1") = 1
  /\ CountForEdge(result.errors, "layer_violation", "e2") = 1

\* a use case misplaced in the domain layer that depends on nothing, beside
\* a domain port that depends on nothing
C8_WitnessMisplaced ==
  /\ called = "validateGraph"
  /\ Len(graph.nodes) = 2
  /\ graph.nodes[1].layer = "domain" /\ graph.nodes[1].type = "usecase"
  /\ graph.nodes[2].layer = "domain" /\ graph.nodes[2].type = "port"
  /\ OutDepIdx(graph, "A") = {} /\ OutDepIdx(graph, "B") = {}
  /\ Cardinality(LayerViolationsOf(graph, result, "A")) = 1
  /\ LayerViolationsOf(graph, result, "B") = {}

\* ------------------------------------------------------------------------
\* C9: an implements edge whose source is not an adapter or whose target is
\* not a port always gives a validation_error; one from an adapter to a port
\* never does.
\* ------------------------------------------------------------------------
C9_ImplementsDirectionChecked ==
  called = "validateGraph" =>
    \A i \in ImplEdgeIdx(graph) :
      Resolved(graph, graph.edges[i]) =>
        LET src == FindNode(graph, graph.edges[i].source)
            dst == FindNode(graph, graph.edges[i].target)
            n == CountForEdge(Findings(result), "validation_error", graph.edges[i].id)
        IN IF src.type = "adapter" /\ dst.type = "port" THEN n = 0 ELSE n >= 1

\* ------------------------------------------------------------------------
\* C10: every edge with a source or target that is not the id of a node is
\* reported by some error or warning of validateGraph.
\* ------------------------------------------------------------------------
C10_DanglingEdgeReported ==
  called = "validateGraph" =>
    \A i \in 1..Len(graph.edges) :
      ~Resolved(graph, graph.edges[i]) =>
        \E n \in 1..Len(Findings(result)) :
          Findings(result)[n].edgeId = graph.edges[i].id

\* ------------------------------------------------------------------------
\* Structurally malformed inputs (ArchitectureValidationUseCase.execute,
\* lines 110-120, and the try/catch of validateGraph, lines 179-232)
\* ------------------------------------------------------------------------

MaxStructEdges == 1

\* an object has the field: reading a field it lacks gives undefined
Has(r, f) == f \in DOMAIN r

DropFields(r, fs) == [f \in DOMAIN r \ fs |-> r[f]]

\* lines 347-351: graph.edges.forEach, and graph.nodes.find for the first
\* dependency edge, throw a TypeError on undefined
checkLayerViolationsThrows(g) ==
  \/ ~Has(g, "edges")
  \/ /\ ~Has(g, "nodes")
     /\ \E i \in 1..Len(g.edges) : g.edges[i].type = "dependency"

\* lines 237-240: graph.nodes.forEach and graph.edges.filter
detectCyclesThrows(g) == ~Has(g, "nodes") \/ ~Has(g, "edges")

\* lines 290-296: node.name.endsWith is evaluated only behind the type test
validateNodeThrows(node) ==
  /\ ~Has(node, "name")
  /\ node.type \in {"port", "adapter", "usecase"}

\* the rules of lines 181-214 that ran to completion, in order
RulesCompleted(g) ==
  IF checkLayerViolationsThrows(g) THEN <<>>
  ELSE IF detectCyclesThrows(g) THEN <<"checkLayerViolations">>
  ELSE IF \E i \in 1..Len(g.nodes) : validateNodeThrows(g.nodes[i])
  THEN <<"checkLayerViolations", "detectCycles">>
  ELSE <<"checkLayerViolations", "detectCycles", "validateNode", "selfLoops">>

\* lines 221-232: the catch branch returns a result, it does not rethrow
validateGraphCatch ==
  [isValid |-> FALSE,
   errors |-> <<MkError(<<"validation_error">>, "validation_error",
                        <<"Validation failed">>, Undefined, Undefined, "error")>>,
   warnings |-> <<>>]

\* lines 175-233, on any input
validateGraphTryCatch(g) ==
  IF Len(RulesCompleted(g)) < 4 THEN validateGraphCatch ELSE validateGraph(g)

\* lines 110-120; validateGraph never throws, so the catch of line 117 is
\* never entered
execute(g) ==
  IF ~Has(g, "nodes") \/ ~Has(g, "edges")
  THEN [threw |-> TRUE, error |-> "TypeError", rulesRun |-> <<>>,
        value |-> NoResult]
  ELSE [threw |-> FALSE, error |-> "none", rulesRun |-> RulesCompleted(g),
        value |-> validateGraphTryCatch(g)]

\* node i of the list without its name
Nameless(nodes, without) ==
  [i \in 1..Len(nodes) |->
     IF i \in without THEN DropFields(nodes[i], {"name"}) ELSE nodes[i]]

\* every type in its own layer, any subset of the nodes without a name, the
\* graph without its nodes list, its edges list, or both
InitStructural ==
  /\ \E types \in SeqsUpTo(NodeType, Len(ValIdOrder)),
        shapes \in SeqsUpTo(EdgeShapes(ValIds, EdgeType), MaxStructEdges),
        missing \in SUBSET {"nodes", "edges"} :
       \E without \in SUBSET (1..Len(types)) :
         graph = DropFields(
                   [nodes |-> Nameless(
                                [i \in 1..Len(types) |->
                                   MkNode(ValIdOrder[i], types[i],
                                          getExpectedLayer(types[i]))],
                                without),
                    edges |-> MkEdges(shapes)],
                   missing)
  /\ NothingCalled

ExecuteCall ==
  /\ called = "none"
  /\ called' = "execute"
  /\ outcome' = DropFields(execute(graph), {"value"})
  /\ result' = execute(graph).value
  /\ UNCHANGED <<graph, cycles, visitOrder, violations>>
  /\ UNCHANGED <<metrics, now, generated, store, lastError>>
  /\ UNCHANGED procs

ValidateGraphTryCatchCall ==
  /\ called = "none"
  /\ called' = "validateGraphTryCatch"
  /\ outcome' = [threw |-> FALSE, error |-> "none",
                 rulesRun |-> RulesCompleted(graph)]
  /\ result' = validateGraphTryCatch(graph)
  /\ UNCHANGED <<graph, cycles, visitOrder, violations>>
  /\ UNCHANGED <<metrics, now, generated, store, lastError>>
  /\ UNCHANGED procs

NextStructural == ExecuteCall \/ ValidateGraphTryCatchCall

SpecStructural == InitStructural /\ [][NextStructural]_vars

Malformed(g) ==
  \/ ~Has(g, "nodes")
  \/ ~Has(g, "edges")
  \/ \E i \in 1..Len(g.nodes) : ~Has(g.nodes[i], "name")

\* C11: a malformed input (no nodes list, no edges list, or a node without
\* a name) makes validation throw a type error before any rule has run, and
\* no ValidationResult is returned for it.
C11_MalformedInputThrows ==
  (called \in {"execute", "validateGraphTryCatch"} /\ Malformed(graph)) =>
    /\ outcome.threw
    /\ outcome.error = "TypeError"
    /\ outcome.rulesRun = <<>>

\* ------------------------------------------------------------------------
\* MetricsAdapter (src/index.tsx:621-676)
\* ------------------------------------------------------------------------

MaxMetricEdges == 3

Max(a, b) == IF a >= b THEN a ELSE b

\* lines 656-666: the closure dfs; st holds visited and maxDepth
RECURSIVE depthDfs(_, _, _, _)
RECURSIVE depthNeighbors(_, _, _, _, _)
depthDfs(adj, node, depth, st) ==
  IF node \in st.visited THEN st
  ELSE depthNeighbors(adj, AdjGet(adj, node), 1, depth + 1,
                      [visited |-> st.visited \cup {node},
                       maxDepth |-> Max(st.maxDepth, depth)])

depthNeighbors(adj, neighbors, i, depth, st) ==
  IF i > Len(neighbors) THEN st
  ELSE depthNeighbors(adj, neighbors, i + 1, depth,
                      depthDfs(adj, neighbors[i], depth, st))

\* lines 668-672: one dfs at depth 0 per node not yet visited
RECURSIVE depthRoots(_, _, _, _)
depthRoots(adj, ns, i, st) ==
  IF i > Len(ns) THEN st
  ELSE IF ns[i].id \in st.visited
  THEN depthRoots(adj, ns, i + 1, st)
  ELSE depthRoots(adj, ns, i + 1, depthDfs(adj, ns[i].id, 0, st))

\* lines 640-675; the adjacency map is built as in detectCycles
calculateMaxDepth(g) ==
  depthRoots(BuildAdj(g), g.nodes, 1, [visited |-> {}, maxDepth |-> 0]).maxDepth

IsLayerViolation(e) == e.type = "layer_violation"

\* lines 622-637; complexity is the double edges / nodes
calculateMetrics(g) ==
  [totalNodes |-> Len(g.nodes),
   totalEdges |-> Len(g.edges),
   complexity |-> IF Len(g.nodes) > 0
                  THEN Float64Div(Len(g.edges), Len(g.nodes))
                  ELSE Float64Zero,
   maxDepth |-> calculateMaxDepth(g),
   cycleCount |-> Len(detectCycles(g)),
   layerViolations |-> Len(SelectSeq(validateGraph(g).errors, IsLayerViolation))]

InitMetrics ==
  /\ \E k \in 0..Len(IdOrder),
        shapes \in SeqsUpTo(EdgeShapes(NodeIds, EdgeType), MaxMetricEdges) :
       graph = [nodes |-> DefaultNodes(k), edges |-> MkEdges(shapes)]
  /\ NothingCalled

CalculateMetricsCall ==
  /\ called = "none"
  /\ called' = "calculateMetrics"
  /\ metrics' = calculateMetrics(graph)
  /\ UNCHANGED <<graph, cycles, visitOrder, violations, result>>
  /\ UNCHANGED <<outcome, now, generated, store, lastError>>
  /\ UNCHANGED procs

NextMetrics == CalculateMetricsCall

SpecMetrics == InitMetrics /\ [][NextMetrics]_vars

\* s[1] -> s[2] -> ... -> s[Len(s)] is a path of dependency edges
DependencyPath(g, s) == \A i \in 1..(Len(s) - 1) : DepEdge(g, s[i], s[i + 1])

\* the number of dependency edges on the longest dependency path; in a DAG
\* a path repeats no node
LongestDependencyPath(g) ==
  IF Len(g.nodes) = 0 THEN 0
  ELSE CHOOSE d \in 0..Len(IdOrder) :
         /\ \E s \in DistinctIdLists : DependencyPath(g, s) /\ Len(s) = d + 1
         /\ \A s \in DistinctIdLists : DependencyPath(g, s) => Len(s) <= d + 1

AllResolved(g) == \A i \in 1..Len(g.edges) : Resolved(g, g.edges[i])

\* C12: on a graph whose dependency edges form a DAG (every edge between
\* existing nodes), maxDepth is the number of dependency edges on the longest
\* dependency path, whatever the order of the nodes and of the edges.
C12_MaxDepthIsLongestPath ==
  (called = "calculateMetrics" /\ DependencyDAG(graph) /\ AllResolved(graph)) =>
    metrics.maxDepth = LongestDependencyPath(graph)

\* ------------------------------------------------------------------------
\* TypeScriptCodeGenerationAdapter (src/index.tsx:381-606) and
\* CodeGenerationUseCase.generateCode (130-147).
\* A text is the sequence of the lines pushed to parts (join('\n') of lines
\* that hold no line break); a line is the tuple of its pieces.
\* ------------------------------------------------------------------------

MaxGenEdges == 2

MaxOrderEdges == 2

UpperCase ==
  <<"A", "B", "C", "D", "E", "F", "G", "H", "I", "J", "K", "L", "M",
    "N", "O", "P", "Q", "R", "S", "T", "U", "V", "W", "X", "Y", "Z">>

LowerCase ==
  <<"a", "b", "c", "d", "e", "f", "g", "h", "i", "j", "k", "l", "m",
    "n", "o", "p", "q", "r", "s", "t", "u", "v", "w", "x", "y", "z">>

ToLowerCase(c) ==
  IF IndexOf(UpperCase, c) # 0 THEN LowerCase[IndexOf(UpperCase, c)] ELSE c

\* lines 604-606
toCamelCase(str) ==
  IF Len(str) = 0 THEN <<>> ELSE <<ToLowerCase(str[1])>> \o Tail(str)

\* Date.prototype.toISOString: one text per instant
ToISOString(t) == <<"ISO-8601", t>>

\* graph.nodes.filter(n => n.type === type)
RECURSIVE NodesOfType(_, _, _)
NodesOfType(ns, type, i) ==
  IF i > Len(ns) THEN <<>>
  ELSE IF ns[i].type = type
  THEN <<ns[i]>> \o NodesOfType(ns, type, i + 1)
  ELSE NodesOfType(ns, type, i + 1)

\* the value undefined where a node is expected: it has no field to read
UndefinedNode == [undefined |-> TRUE]

\* graph.nodes.find(n => n.id === id): the first such node, or undefined
RECURSIVE FindFirst(_, _, _)
FindFirst(ns, id, i) ==
  IF i > Len(ns) THEN UndefinedNode
  ELSE IF ns[i].id = id THEN ns[i] ELSE FindFirst(ns, id, i + 1)

\* graph.edges.filter(e => e.source === id && e.type === type)
\*   .map(e => graph.nodes.find(n => n.id === e.target)), from edge i on
RECURSIVE MappedTargets(_, _, _, _)
MappedTargets(g, id, type, i) ==
  IF i > Len(g.edges) THEN <<>>
  ELSE IF g.edges[i].source = id /\ g.edges[i].type = type
  THEN <<FindFirst(g.nodes, g.edges[i].target, 1)>> \o MappedTargets(g, id, type, i + 1)
  ELSE MappedTargets(g, id, type, i + 1)

IsDefined(n) == n # UndefinedNode

\* the nodes of the list that some dependency edge from the use case targets,
\* in node-list order
getUseCaseDependenciesNodeOrder(usecase, g) ==
  NodesOfType(
    [i \in 1..Len(g.nodes) |->
       IF \E j \in 1..Len(g.edges) :
            /\ g.edges[j].source = usecase.id
            /\ g.edges[j].type = "dependency"
            /\ g.edges[j].target = g.nodes[i].id
       THEN [g.nodes[i] EXCEPT !.type = "dep"]
       ELSE g.nodes[i]],
    "dep", 1)

\* lines 583-588
getUseCaseDependencies(usecase, g) ==
  SelectSeq(MappedTargets(g, usecase.id, "dependency", 1), IsDefined)

\* lines 590-595
getImplementedPorts(adapter, g) ==
  SelectSeq(MappedTargets(g, adapter.id, "implements", 1), IsDefined)

\* lines 597-602
getControllerDependencies(controller, g) ==
  SelectSeq(MappedTargets(g, controller.id, "dependency", 1), IsDefined)

\* dep.name of an element that is undefined throws a TypeError
ReadsNameOfUndefined(deps) == \E i \in 1..Len(deps) : deps[i] = UndefinedNode

\* lines 446, 498: `private ${toCamelCase(dep.name)}: ${dep.name}`, joined
\* by ', ' (kept as the sequence of the joined pieces)
ConstructorParams(deps) ==
  [i \in 1..Len(deps) |->
     <<"private ", toCamelCase(deps[i].name), ": ", deps[i].name>>]

ConstructorLine(params) == <<"  constructor(", params, ") {}">>

ClassHeader(name) == <<"export class ", name, " {">>

Banner(comment, title) ==
  << <<comment, " ====">>, <<comment, " ", title>>, <<comment, " ====">>, <<"">> >>

\* lines 390-396
HeaderTypeScript(t) ==
  << <<"// Generated by Graph-First Programming IDE">>,
     <<"// Generated at: ", ToISOString(t)>>,
     <<"">>,
     <<"// Domain imports">>,
     <<"">> >>

\* lines 407-413; no node of the model has a description
PortInterface(port) ==
  << <<"/**">>, <<" * ", "Port interface for ", port.name>>, <<" */">>,
     <<"export interface ", port.name, " {">>,
     <<"  // TODO: Add method signatures">>, <<"}">>, <<"">> >>

\* lines 426-432
EntityClass(entity) ==
  << <<"/**">>, <<" * ", "Domain entity: ", entity.name>>, <<" */">>,
     ClassHeader(entity.name),
     <<"  // TODO: Add properties and methods">>, <<"}">>, <<"">> >>

\* lines 445-460
UseCaseClass(usecase, g) ==
  LET dependencies == getUseCaseDependencies(usecase, g) IN
  << <<"/**">>, <<" * ", "Use case: ", usecase.name>>, <<" */">>,
     ClassHeader(usecase.name) >>
  \o (IF Len(dependencies) > 0
      THEN << ConstructorLine(ConstructorParams(dependencies)), <<"">> >>
      ELSE <<>>)
  \o << <<"  async execute(): Promise<void> {">>,
        <<"    // TODO: Implement use case logic">>,
        <<"  }">>, <<"}">>, <<"">> >>

PortNames(ps) == [i \in 1..Len(ps) |-> ps[i].name]

\* lines 473-484
AdapterClass(adapter, g) ==
  LET implementedPorts == getImplementedPorts(adapter, g) IN
  << <<"/**">>, <<" * ", "Adapter implementation: ", adapter.name>>, <<" */">>,
     IF Len(implementedPorts) > 0
     THEN <<"export class ", adapter.name, " implements ",
            PortNames(implementedPorts), " {">>
     ELSE <<"export class ", adapter.name, "", " {">>,
     <<"  // TODO: Implement adapter methods">>, <<"}">>, <<"">> >>

\* lines 497-510
ControllerClass(controller, g) ==
  LET dependencies == getControllerDependencies(controller, g) IN
  << <<"/**">>, <<" * ", "Controller: ", controller.name>>, <<" */">>,
     ClassHeader(controller.name) >>
  \o (IF Len(dependencies) > 0
      THEN << ConstructorLine(ConstructorParams(dependencies)), <<"">> >>
      ELSE <<>>)
  \o << <<"  // TODO: Add controller methods">>, <<"}">>, <<"">> >>

\* the block of one node of the section of its type
BlockOf(node, g) ==
  CASE node.type = "port" -> PortInterface(node)
    [] node.type = "entity" -> EntityClass(node)
    [] node.type = "usecase" -> UseCaseClass(node, g)
    [] node.type = "adapter" -> AdapterClass(node, g)
    [] node.type = "controller" -> ControllerClass(node, g)

RECURSIVE Blocks(_, _, _)
Blocks(ns, g, i) ==
  IF i > Len(ns) THEN <<>> ELSE BlockOf(ns[i], g) \o Blocks(ns, g, i + 1)

\* a section: nothing if no node has the type, else banner and blocks
Section(g, type, title) ==
  LET ns == NodesOfType(g.nodes, type, 1) IN
  IF Len(ns) > 0 THEN Banner("//", title) \o Blocks(ns, g, 1) ELSE <<>>

\* the places of lines 446, 475 and 498 that read .name of a dependency
generateTypeScriptThrows(g) ==
  \E i \in 1..Len(g.nodes) :
    \/ /\ g.nodes[i].type = "usecase"
       /\ ReadsNameOfUndefined(getUseCaseDependencies(g.nodes[i], g))
    \/ /\ g.nodes[i].type = "adapter"
       /\ ReadsNameOfUndefined(getImplementedPorts(g.nodes[i], g))
    \/ /\ g.nodes[i].type = "controller"
       /\ ReadsNameOfUndefined(getControllerDependencies(g.nodes[i], g))

\* lines 382-515, called at instant t
generateTypeScript(g, t) ==
  HeaderTypeScript(t)
  \o Section(g, "port", "PORTS (Domain Layer)")
  \o Section(g, "entity", "ENTITIES (Domain Layer)")
  \o Section(g, "usecase", "USE CASES (Application Layer)")
  \o Section(g, "adapter", "ADAPTERS (Infrastructure Layer)")
  \o Section(g, "controller", "CONTROLLERS (Interface Layer)")

\* lines 541-546
PortProtocol(port) ==
  << <<"@runtime_checkable">>, <<"class ", port.name, "(Protocol):">>,
     <<"    \"\"\"", "Port interface for ", port.name, "\"\"\"">>,
     <<"    # TODO: Add method signatures">>, <<"    pass">>, <<"">> >>

RECURSIVE PortProtocols(_, _)
PortProtocols(ps, i) ==
  IF i > Len(ps) THEN <<>> ELSE PortProtocol(ps[i]) \o PortProtocols(ps, i + 1)

\* lines 517-551, called at instant t
generatePython(g, t) ==
  LET ports == NodesOfType(g.nodes, "port", 1) IN
  << <<"# Generated by Graph-First Programming IDE">>,
     <<"# Generated at: ", ToISOString(t)>>,
     <<"">>,
     <<"from abc import ABC, abstractmethod">>,
     <<"from typing import Protocol, runtime_checkable">>,
     <<"">> >>
  \o (IF Len(ports) > 0
      THEN Banner("#", "PORTS (Domain Layer)") \o PortProtocols(ports, 1)
      ELSE <<>>)

Languages == {"typescript", "python", "java"}

Returned(text) == [threw |-> FALSE, error |-> "none", text |-> text]

Thrown(error) == [threw |-> TRUE, error |-> error, text |-> <<>>]

\* a generateCode that first validates the graph and refuses an invalid one
generateCodeGated(g, language, t) ==
  IF ~validateGraph(g).isValid
  THEN Thrown("Code generation failed")
  ELSE CASE language = "typescript" -> Returned(generateTypeScript(g, t))
         [] language = "python" -> Returned(generatePython(g, t))
         [] OTHER -> Thrown("Code generation failed: Unsupported language")

\* lines 130-147, on a graph that has a nodes array, called at instant t
generateCode(g, language, t) ==
  CASE language = "typescript" ->
         IF generateTypeScriptThrows(g)
         THEN Thrown("Code generation failed")
         ELSE Returned(generateTypeScript(g, t))
    [] language = "python" -> Returned(generatePython(g, t))
    [] OTHER -> Thrown("Code generation failed: Unsupported language")

\* the node lists of generation: a prefix of IdOrder, every type in its layer
TypedNodes(types) ==
  [i \in 1..Len(types) |->
     MkNode(IdOrder[i], types[i], getExpectedLayer(types[i]))]

\* up to two nodes; an edge to or from the third id is dangling
InitGenerate ==
  /\ \E types \in SeqsUpTo(NodeType, Len(ValIdOrder)),
        shapes \in SeqsUpTo(EdgeShapes(NodeIds, EdgeType), MaxGenEdges) :
       graph = [nodes |-> TypedNodes(types), edges |-> MkEdges(shapes)]
  /\ NothingCalled

\* three nodes of any types
InitGenerateOrder ==
  /\ \E types \in [1..Len(IdOrder) -> NodeType],
        shapes \in SeqsUpTo(EdgeShapes(NodeIds, EdgeType), MaxOrderEdges) :
       graph = [nodes |-> TypedNodes(types), edges |-> MkEdges(shapes)]
  /\ NothingCalled

CallName(language) ==
  CASE language = "typescript" -> "generateCode typescript"
    [] language = "python" -> "generateCode python"
    [] OTHER -> "generateCode java"

GenerateCodeCall(language) ==
  /\ called = "none"
  /\ called' = CallName(language)
  /\ \E r \in {generateCode(graph, language, now)} :
       /\ outcome' = [threw |-> r.threw, error |-> r.error, rulesRun |-> <<>>]
       /\ generated' = IF r.threw THEN generated
                       ELSE Append(generated,
                                   [language |-> language, text |-> r.text])
  /\ UNCHANGED <<graph, cycles, visitOrder, violations, result>>
  /\ UNCHANGED <<metrics, now, store, lastError>>
  /\ UNCHANGED procs

NextGenerate == \E language \in Languages : GenerateCodeCall(language)

SpecGenerate == InitGenerate /\ [][NextGenerate]_vars

NextGenerateOrder == GenerateCodeCall("typescript")

SpecGenerateOrder == InitGenerateOrder /\ [][NextGenerateOrder]_vars

\* ------------------------------------------------------------------------
\* Two calls of generateTypeScript with the clock running between them
\* ------------------------------------------------------------------------

MaxClock == 1

MaxGenCalls == 2

MaxTwiceEdges == 1

InitGenerateTwice ==
  /\ \E types \in SeqsUpTo(NodeType, Len(ValIdOrder)),
        shapes \in SeqsUpTo(EdgeShapes(ValIds, EdgeType), MaxTwiceEdges) :
       graph = [nodes |-> TypedNodes(types), edges |-> MkEdges(shapes)]
  /\ NothingCalled

\* time passes between, never during, the calls
Tick ==
  /\ now < MaxClock
  /\ now' = now + 1
  /\ UNCHANGED <<graph, called, cycles, visitOrder, violations, result>>
  /\ UNCHANGED <<outcome, metrics, generated, store, lastError>>
  /\ UNCHANGED procs

\* the port method generateTypeScript (lines 382-515), called directly
GenerateTypeScriptCall ==
  /\ Len(generated) < MaxGenCalls
  /\ ~generateTypeScriptThrows(graph)
  /\ called' = "generateTypeScript"
  /\ outcome' = NoOutcome
  /\ generated' = Append(generated, [language |-> "typescript",
                                     text |-> generateTypeScript(graph, now)])
  /\ UNCHANGED <<graph, cycles, visitOrder, violations, result>>
  /\ UNCHANGED <<metrics, now, store, lastError>>
  /\ UNCHANGED procs

NextGenerateTwice == Tick \/ GenerateTypeScriptCall

SpecGenerateTwice == InitGenerateTwice /\ [][NextGenerateTwice]_vars

\* C13: two calls of the TypeScript generator on the same graph return the
\* same text, whenever they are made.
C13_GeneratedTextDependsOnGraphOnly ==
  \A i, j \in 1..Len(generated) : generated[i].text = generated[j].text

\* ------------------------------------------------------------------------
\* Constructor parameters of the generated use case classes
\* ------------------------------------------------------------------------

\* the parameters of the constructor of the class called name in a text:
\* the line after the class header, if it is a constructor line
ParamsInClass(text, name) ==
  LET i == CHOOSE k \in 1..Len(text) : text[k] = ClassHeader(name) IN
  IF text[i + 1][1] = "  constructor(" THEN text[i + 1][2] ELSE <<>>

\* the type name of a parameter `private x: X`
ParamType(param) == param[4]

IsPortOf(g, id) ==
  \E n \in 1..Len(g.nodes) : g.nodes[n].id = id /\ g.nodes[n].type = "port"

NameOfNode(g, id) ==
  g.nodes[CHOOSE n \in 1..Len(g.nodes) : g.nodes[n].id = id].name

\* node u is a use case whose outgoing dependency edges are exactly edges i
\* and j, i before j, to two distinct ports
TwoPortUseCase(g, u, i, j) ==
  /\ g.nodes[u].type = "usecase"
  /\ i < j
  /\ OutDepIdx(g, g.nodes[u].id) = {i, j}
  /\ g.edges[i].target # g.edges[j].target
  /\ IsPortOf(g, g.edges[i].target)
  /\ IsPortOf(g, g.edges[j].target)

\* C14: a use case with two outgoing dependency edges, to two distinct
\* ports, gets a class with exactly two constructor parameters, the port of
\* the earlier edge first, wherever the ports stand in the node list.
C14_TwoPortsTwoParamsInEdgeOrder ==
  called = "generateCode typescript" =>
    \A u \in 1..Len(graph.nodes) : \A i, j \in 1..Len(graph.edges) :
      TwoPortUseCase(graph, u, i, j) =>
        LET params == ParamsInClass(generated[1].text, graph.nodes[u].name) IN
        /\ Len(params) = 2
        /\ ParamType(params[1]) = NameOfNode(graph, graph.edges[i].target)
        /\ ParamType(params[2]) = NameOfNode(graph, graph.edges[j].target)
        /\ params[1][2] = toCamelCase(ParamType(params[1]))
        /\ params[2][2] = toCamelCase(ParamType(params[2]))

\* the port of the earlier edge stands later in the node list
C14_Witness ==
  /\ called = "generateCode typescript"
  /\ \E u \in 1..Len(graph.nodes) : \E i, j \in 1..Len(graph.edges) :
       /\ TwoPortUseCase(graph, u, i, j)
       /\ \E a, b \in 1..Len(graph.nodes) :
            /\ a > b
            /\ graph.nodes[a].id = graph.edges[i].target
            /\ graph.nodes[b].id = graph.edges[j].target
       /\ Len(ParamsInClass(generated[1].text, graph.nodes[u].name)) = 2

\* C15: the constructor parameters of a use case class are the ports that
\* its outgoing dependency edges target, and nothing else.
C15_OnlyPortsAreParams ==
  called = "generateCode typescript" =>
    \A u \in 1..Len(graph.nodes) :
      graph.nodes[u].type = "usecase" =>
        LET params == ParamsInClass(generated[1].text, graph.nodes[u].name) IN
        {ParamType(params[k]) : k \in 1..Len(params)}
          = {NameOfNode(graph, graph.edges[i].target) :
               i \in {e \in OutDepIdx(graph, graph.nodes[u].id) :
                        IsPortOf(graph, graph.edges[e].target)}}

\* C17: generateCode returns a text for TypeScript and for Python on every
\* well-formed graph, valid or not, and throws for any other language only.
C17_GenerationNotGated ==
  /\ called \in {"generateCode typescript", "generateCode python"} =>
       /\ ~outcome.threw
       /\ Len(generated) = 1
  /\ called = "generateCode java" =>
       /\ outcome.threw
       /\ outcome.error = "Code generation failed: Unsupported language"
       /\ generated = <<>>

\* a text came back for a graph with a dependency cycle, a self-loop and a
\* dangling edge, which validateGraph rejects
C17_Witness ==
  /\ called = "generateCode typescript"
  /\ ~outcome.threw
  /\ Len(generated) = 1
  /\ ~validateGraph(graph).isValid
  /\ Len(detectCycles(graph)) > 0
  /\ \E i \in 1..Len(graph.edges) : graph.edges[i].source = graph.edges[i].target
  /\ \E i \in 1..Len(graph.edges) : ~Resolved(graph, graph.edges[i])

\* ------------------------------------------------------------------------
\* The composition root: TypeScriptCodeGenerator.generateDependencyGraph
\* and getDependencies (src/unnamed/part_002:503-557, 693-697)
\* ------------------------------------------------------------------------

MaxWireEdges == 2

\* part_002:693-697: the sources of the dependency edges INTO the node, in
\* edge order
RECURSIVE getDependencies(_, _, _)
getDependencies(nodeId, g, i) ==
  IF i > Len(g.edges) THEN <<>>
  ELSE IF g.edges[i].target = nodeId /\ g.edges[i].type = "dependency"
  THEN <<g.edges[i].source>> \o getDependencies(nodeId, g, i + 1)
  ELSE getDependencies(nodeId, g, i + 1)

\* `this.instances.get('${dep}')`
InstanceGet(dep) == <<"this.instances.get('", dep, "')">>

\* part_002:528, 536: dependencies.map(...), joined by ', '
DepParams(deps) == [i \in 1..Len(deps) |-> InstanceGet(deps[i])]

\* part_002:521, 529, 537: `this.instances.set('${id}', new ${name}(${depParams}));`
InstanceSet(node, depParams) ==
  <<"    this.instances.set('", node.id, "', new ", node.name, "(", depParams, "));">>

\* part_002:519-522: adapters are built without arguments
RECURSIVE BuildAdapters(_, _)
BuildAdapters(ns, i) ==
  IF i > Len(ns) THEN <<>>
  ELSE <<InstanceSet(ns[i], <<>>)>> \o BuildAdapters(ns, i + 1)

\* part_002:525-530 and 533-538
RECURSIVE BuildWithDependencies(_, _, _)
BuildWithDependencies(ns, g, i) ==
  IF i > Len(ns) THEN <<>>
  ELSE <<InstanceSet(ns[i], DepParams(getDependencies(ns[i].id, g, 1)))>>
       \o BuildWithDependencies(ns, g, i + 1)

\* part_002:503-557
generateDependencyGraph(g) ==
  << <<"// ====">>, <<"// DEPENDENCY GRAPH CONFIGURATION">>, <<"// ====">>, <<"">>,
     <<"export class DependencyGraph {">>,
     <<"  private instances = new Map<string, any>();">>, <<"">>,
     <<"  constructor() {">>, <<"    this.buildGraph();">>,
     <<"    this.validateGraph();">>, <<"  }">>, <<"">>,
     <<"  private buildGraph(): void {">> >>
  \o BuildAdapters(NodesOfType(g.nodes, "adapter", 1), 1)
  \o BuildWithDependencies(NodesOfType(g.nodes, "usecase", 1), g, 1)
  \o BuildWithDependencies(NodesOfType(g.nodes, "controller", 1), g, 1)
  \o << <<"  }">>, <<"">>,
        <<"  private validateGraph(): void {">>,
        <<"    // Add cycle detection and validation logic here">>,
        <<"    console.log('Dependency graph validated successfully');">>,
        <<"  }">>, <<"">>,
        <<"  getInstance<T>(id: string): T {">>,
        <<"    const instance = this.instances.get(id);">>,
        <<"    if (!instance) {">>,
        <<"      throw new Error(", "Component ", "id", " not found in dependency graph", ");">>,
        <<"    }">>,
        <<"    return instance as T;">>,
        <<"  }">>, <<"}">>, <<"">>, <<"">> >>

InitWiring ==
  /\ \E types \in [1..Len(IdOrder) -> NodeType],
        shapes \in SeqsUpTo(EdgeShapes(NodeIds, EdgeType), MaxWireEdges) :
       graph = [nodes |-> TypedNodes(types), edges |-> MkEdges(shapes)]
  /\ NothingCalled

GenerateDependencyGraphCall ==
  /\ called = "none"
  /\ called' = "generateDependencyGraph"
  /\ generated' = <<[language |-> "typescript",
                     text |-> generateDependencyGraph(graph)]>>
  /\ UNCHANGED <<graph, cycles, visitOrder, violations, result>>
  /\ UNCHANGED <<outcome, metrics, now, store, lastError>>
  /\ UNCHANGED procs

NextWiring == GenerateDependencyGraphCall

SpecWiring == InitWiring /\ [][NextWiring]_vars

\* the arguments of the instantiation of node in a text
ArgumentsOf(text, node) ==
  LET i == CHOOSE k \in 1..Len(text) :
             /\ Len(text[k]) = 7
             /\ text[k][2] = node.id
  IN text[i][6]

\* the adapters with an implements edge into the port, in edge order
RECURSIVE ImplementersOf(_, _, _)
ImplementersOf(g, portId, i) ==
  IF i > Len(g.edges) THEN <<>>
  ELSE IF /\ g.edges[i].target = portId
          /\ g.edges[i].type = "implements"
          /\ \E n \in 1..Len(g.nodes) :
               g.nodes[n].id = g.edges[i].source /\ g.nodes[n].type = "adapter"
  THEN <<g.edges[i].source>> \o ImplementersOf(g, portId, i + 1)
  ELSE ImplementersOf(g, portId, i + 1)

\* the ports the use case depends on, in edge order
RECURSIVE PortDependencies(_, _, _)
PortDependencies(g, id, i) ==
  IF i > Len(g.edges) THEN <<>>
  ELSE IF /\ g.edges[i].source = id
          /\ g.edges[i].type = "dependency"
          /\ IsPortOf(g, g.edges[i].target)
  THEN <<g.edges[i].target>> \o PortDependencies(g, id, i + 1)
  ELSE PortDependencies(g, id, i + 1)

\* C16: in the composition root every port dependency of a use case is an
\* argument of its instantiation, resolved to the first adapter (in edge
\* order) that implements the port, or a placeholder that is no instance
\* reference when no adapter implements it.
C16_PortsResolvedToAdapters ==
  called = "generateDependencyGraph" =>
    \A u \in 1..Len(graph.nodes) :
      graph.nodes[u].type = "usecase" =>
        LET args == ArgumentsOf(generated[1].text, graph.nodes[u])
            ports == PortDependencies(graph, graph.nodes[u].id, 1)
        IN /\ Len(args) = Len(ports)
           /\ \A k \in 1..Len(ports) :
                LET adapters == ImplementersOf(graph, ports[k], 1) IN
                IF Len(adapters) > 0
                THEN args[k] = InstanceGet(adapters[1])
                ELSE args[k][1] # InstanceGet(ports[k])[1]

\* ------------------------------------------------------------------------
\* InMemoryGraphAdapter (src/index.tsx:1545-1619), second snapshot.
\* Each method is a function from the stored graph and its argument to the
\* stored graph after the call and the error it threw. metadata.updatedAt
\* is not part of the model; no listener is registered.
\* ------------------------------------------------------------------------

MaxStoreEdges == 2

HasEdge(g, id) == \E i \in 1..Len(g.edges) : g.edges[i].id = id

Done(g) == [graph |-> g, error |-> NoError]

Rejected(g, message, id) == [graph |-> g, error |-> [message |-> message, id |-> id]]

\* an addNode that pushes whatever it is given
addNodeUnchecked(g, node) == Done([g EXCEPT !.nodes = Append(@, node)])

\* lines 1575-1582
addNode(g, node) ==
  IF HasNode(g, node.id)
  THEN Rejected(g, "Node with id already exists", node.id)
  ELSE Done([g EXCEPT !.nodes = Append(@, node)])

\* nodes.filter(n => n.id !== nodeId)
RECURSIVE NodesWithout(_, _, _)
NodesWithout(ns, nodeId, i) ==
  IF i > Len(ns) THEN <<>>
  ELSE IF ns[i].id # nodeId
  THEN <<ns[i]>> \o NodesWithout(ns, nodeId, i + 1)
  ELSE NodesWithout(ns, nodeId, i + 1)

\* edges.filter(e => e.source !== nodeId && e.target !== nodeId)
RECURSIVE EdgesNotTouching(_, _, _)
EdgesNotTouching(es, nodeId, i) ==
  IF i > Len(es) THEN <<>>
  ELSE IF es[i].source # nodeId /\ es[i].target # nodeId
  THEN <<es[i]>> \o EdgesNotTouching(es, nodeId, i + 1)
  ELSE EdgesNotTouching(es, nodeId, i + 1)

\* edges.filter(e => e.id !== edgeId)
RECURSIVE EdgesWithout(_, _, _)
EdgesWithout(es, edgeId, i) ==
  IF i > Len(es) THEN <<>>
  ELSE IF es[i].id # edgeId
  THEN <<es[i]>> \o EdgesWithout(es, edgeId, i + 1)
  ELSE EdgesWithout(es, edgeId, i + 1)

\* lines 1584-1589
removeNode(g, nodeId) ==
  Done([nodes |-> NodesWithout(g.nodes, nodeId, 1),
        edges |-> EdgesNotTouching(g.edges, nodeId, 1)])

\* lines 1591-1598: the edge id is tested, the endpoints are not
addEdge(g, edge) ==
  IF HasEdge(g, edge.id)
  THEN Rejected(g, "Edge with id already exists", edge.id)
  ELSE Done([g EXCEPT !.edges = Append(@, edge)])

\* lines 1600-1604
removeEdgeBetween(g, edgeId) ==
  LET hit == {i \in 1..Len(g.edges) : g.edges[i].id = edgeId}
      keep(e) == \A i \in hit :
                   e.source # g.edges[i].source \/ e.target # g.edges[i].target
  IN Done([g EXCEPT !.edges = SelectSeq(g.edges, keep)])

removeEdge(g, edgeId) ==
  Done([g EXCEPT !.edges = EdgesWithout(@, edgeId, 1)])

\* nodes.findIndex(n => n.id === id), from 1; 0 for -1
RECURSIVE FindIndex(_, _, _)
FindIndex(ns, id, i) ==
  IF i > Len(ns) THEN 0
  ELSE IF ns[i].id = id THEN i ELSE FindIndex(ns, id, i + 1)

\* lines 1606-1614
updateNode(g, node) ==
  LET index == FindIndex(g.nodes, node.id, 1) IN
  IF index = 0
  THEN Rejected(g, "Node with id not found", node.id)
  ELSE Done([g EXCEPT !.nodes[index] = node])

\* the nodes and edges the calls are made with
StoreNodes == {MkNode(id, type, "domain") : id \in ValIds, type \in {"entity", "port"}}

StoreEdgeIds == {EdgeIdOf(i) : i \in 1..MaxStoreEdges}

StoreEdges ==
  {[id |-> id, source |-> s, target |-> t, type |-> "dependency"] :
     id \in StoreEdgeIds, s \in ValIds, t \in ValIds}

\* In the specifications of the store, graph is the stored graph as it was
\* when the last call began.
InitStore == NothingCalled /\ graph = EmptyStore

\* what every call on the store leaves alone
StoreFrame ==
  /\ UNCHANGED <<cycles, visitOrder, violations, result>>
  /\ UNCHANGED <<outcome, metrics, now, generated>>
  /\ UNCHANGED procs

AddNodeCall(node) ==
  /\ Len(store.nodes) <= Len(ValIdOrder)
  /\ \E r \in {addNode(store, node)} : store' = r.graph /\ lastError' = r.error
  /\ called' = "addNode"
  /\ graph' = store
  /\ StoreFrame

UpdateNodeCall(node) ==
  /\ \E r \in {updateNode(store, node)} : store' = r.graph /\ lastError' = r.error
  /\ called' = "updateNode"
  /\ graph' = store
  /\ StoreFrame

RemoveNodeCall(nodeId) ==
  /\ \E r \in {removeNode(store, nodeId)} : store' = r.graph /\ lastError' = r.error
  /\ called' = "removeNode"
  /\ graph' = store
  /\ StoreFrame

AddEdgeCall(edge) ==
  /\ Len(store.edges) <= MaxStoreEdges
  /\ \E r \in {addEdge(store, edge)} : store' = r.graph /\ lastError' = r.error
  /\ called' = "addEdge"
  /\ graph' = store
  /\ StoreFrame

RemoveEdgeCall(edgeId) ==
  /\ \E r \in {removeEdge(store, edgeId)} : store' = r.graph /\ lastError' = r.error
  /\ called' = "removeEdge"
  /\ graph' = store
  /\ StoreFrame

NextStore ==
  \/ \E node \in StoreNodes : AddNodeCall(node)
  \/ \E node \in StoreNodes : UpdateNodeCall(node)
  \/ \E nodeId \in ValIds : RemoveNodeCall(nodeId)
  \/ \E edge \in StoreEdges : AddEdgeCall(edge)
  \/ \E edgeId \in StoreEdgeIds : RemoveEdgeCall(edgeId)

SpecStore == InitStore /\ [][NextStore]_vars

\* C19: every edge of the stored graph joins two nodes of the stored graph.
C19_EdgesJoinStoredNodes == AllResolved(store)

UniqueNodeIds(g) ==
  \A i, j \in 1..Len(g.nodes) : g.nodes[i].id = g.nodes[j].id => i = j

UniqueEdgeIds(g) ==
  \A i, j \in 1..Len(g.edges) : g.edges[i].id = g.edges[j].id => i = j

\* C20: no two stored nodes and no two stored edges share an id; an addNode
\* (addEdge) either appended a node (edge) whose id was not stored, or threw
\* for an id that was stored and changed nothing.
C20_IdsUnique ==
  /\ UniqueNodeIds(store)
  /\ UniqueEdgeIds(store)
  /\ called = "addNode" =>
       IF lastError = NoError
       THEN /\ Len(store.nodes) = Len(graph.nodes) + 1
            /\ ~HasNode(graph, store.nodes[Len(store.nodes)].id)
       ELSE /\ lastError.message = "Node with id already exists"
            /\ HasNode(graph, lastError.id)
            /\ store = graph
  /\ called = "addEdge" =>
       IF lastError = NoError
       THEN /\ Len(store.edges) = Len(graph.edges) + 1
            /\ ~HasEdge(graph, store.edges[Len(store.edges)].id)
       ELSE /\ lastError.message = "Edge with id already exists"
            /\ HasEdge(graph, lastError.id)
            /\ store = graph

\* an addNode was rejected for the id of a node that updateNode had replaced
\* in place, with an edge stored
C20_Witness ==
  /\ called = "addNode"
  /\ lastError.message = "Node with id already exists"
  /\ Len(store.nodes) = 2
  /\ store.nodes[1].id = lastError.id
  /\ store.nodes[1].type = "port"
  /\ Len(store.edges) > 0

\* ------------------------------------------------------------------------
\* ArchitectureValidationAdapter.detectCycles of the second snapshot
\* (src/index.tsx:1622-1658) and ConnectNodesUseCase.execute (1931-1951)
\* ------------------------------------------------------------------------

MaxConnectEdges == 2

\* lines 1637-1639: the targets of the dependency edges from nodeId, whether
\* or not nodeId is a node of the graph
RECURSIVE neighborsOf(_, _, _)
neighborsOf(g, nodeId, i) ==
  IF i > Len(g.edges) THEN <<>>
  ELSE IF g.edges[i].source = nodeId /\ g.edges[i].type = "dependency"
  THEN <<g.edges[i].target>> \o neighborsOf(g, nodeId, i + 1)
  ELSE neighborsOf(g, nodeId, i + 1)

\* lines 1627-1649: dfs returns true at the first cycle and then leaves
\* recStack as it is; r.found is its return value
RECURSIVE dfsStore(_, _, _, _)
RECURSIVE dfsStoreNeighbors(_, _, _, _, _)
dfsStore(g, nodeId, path, st) ==
  IF nodeId \in st.recStack
  THEN [st |-> [st EXCEPT !.cycles = Append(@, Append(path, nodeId))],
        found |-> TRUE]
  ELSE IF nodeId \in st.visited
  THEN [st |-> st, found |-> FALSE]
  ELSE LET r == dfsStoreNeighbors(g, neighborsOf(g, nodeId, 1), 1,
                                  Append(path, nodeId),
                                  [st EXCEPT !.visited = @ \cup {nodeId},
                                             !.recStack = @ \cup {nodeId}])
       IN IF r.found THEN r
          ELSE [st |-> [r.st EXCEPT !.recStack = @ \ {nodeId}], found |-> FALSE]

dfsStoreNeighbors(g, neighbors, i, path, st) ==
  IF i > Len(neighbors) THEN [st |-> st, found |-> FALSE]
  ELSE LET r == dfsStore(g, neighbors[i], path, st) IN
       IF r.found THEN r
       ELSE dfsStoreNeighbors(g, neighbors, i + 1, path, r.st)

\* lines 1651-1655: the roots are the nodes of the graph, and only they
RECURSIVE dfsStoreRoots(_, _, _)
dfsStoreRoots(g, i, st) ==
  IF i > Len(g.nodes) THEN st
  ELSE IF g.nodes[i].id \in st.visited
  THEN dfsStoreRoots(g, i + 1, st)
  ELSE dfsStoreRoots(g, i + 1, dfsStore(g, g.nodes[i].id, <<>>, st).st)

\* lines 1622-1658; a cycle is kept as the list that ' → ' joins
detectCyclesStore(g) ==
  dfsStoreRoots(g, 1, [visited |-> {}, recStack |-> {}, cycles |-> <<>>]).cycles

\* lines 1931-1951, run to completion; id is the value of
\* `edge_${Date.now()}_${Math.random()...}`
connectNodes(g, id, sourceId, targetId, type) ==
  LET edge == [id |-> id, source |-> sourceId, target |-> targetId, type |-> type]
      added == addEdge(g, edge)
  IN IF added.error # NoError THEN added
     ELSE IF Len(detectCyclesStore(added.graph)) > 0
     THEN Rejected(removeEdge(added.graph, edge.id).graph,
                   "Circular dependency detected", edge.id)
     ELSE added

ConnectEdgeIds == {EdgeIdOf(i) : i \in 1..MaxConnectEdges}

\* the store starts with a prefix of the nodes and no edge; graph is the
\* stored graph before the last call
InitConnect ==
  /\ NoCallYet
  /\ \E k \in 0..Len(IdOrder) : store = [nodes |-> DefaultNodes(k), edges |-> <<>>]
  /\ graph = store

ConnectNodesCall(id, sourceId, targetId, type) ==
  /\ Len(store.edges) < MaxConnectEdges
  /\ \E r \in {connectNodes(store, id, sourceId, targetId, type)} :
       store' = r.graph /\ lastError' = r.error
  /\ called' = "connectNodes"
  /\ graph' = store
  /\ StoreFrame

NextConnect ==
  \E id \in ConnectEdgeIds, sourceId \in NodeIds, targetId \in NodeIds,
     type \in EdgeType :
    ConnectNodesCall(id, sourceId, targetId, type)

SpecConnect == InitConnect /\ [][NextConnect]_vars

\* C18: the dependency edges of the stored graph never contain a directed
\* cycle, whatever connects were made.
C18_StoreStaysAcyclic == DependencyDAG(store)

\* ------------------------------------------------------------------------
\* The two depth-first searches, one step at a time: detectCycles
\* (src/index.tsx:249-284) and calculateMaxDepth (653-674). machine.stack is
\* the call stack of the closure dfs; a frame is [node, path, depth, i],
\* i = 0 on entry and else the position in the loop over the neighbors;
\* machine.steps counts the steps taken.
\* ------------------------------------------------------------------------

MaxSearchEdges == 2

SearchModes == {"detectCycles", "calculateMaxDepth"}

Running(m) == m.mode \in SearchModes

Top(m) == m.stack[Len(m.stack)]

Pop(m) == SubSeq(m.stack, 1, Len(m.stack) - 1)

\* the frame on top with its loop position advanced
Advanced(m) == [m.stack EXCEPT ![Len(m.stack)].i = @ + 1]

\* lines 260 and 657: visited.has(node)
AlreadyVisitedNever(m, node) == FALSE

AlreadyVisited(m, node) == node \in m.visited

\* every node enters visited once, every dependency edge is followed once:
\* a frame per root and per followed edge, two steps per frame, a step per
\* position of the two loops, the first and the last step
StepBound(g) == 3 * (Len(g.nodes) + Len(g.edges)) + 2

\* the call of detectCycles or calculateMaxDepth: lines 236-251 and 641-654
\* build the adjacency map and the empty collections
StartSearch(mode) ==
  /\ machine.mode = "none"
  /\ machine' = [NoMachine EXCEPT !.mode = mode, !.steps = 1]
  /\ UNCHANGED <<graph, called, cycles, visitOrder, violations, result>>
  /\ UNCHANGED <<outcome, metrics, now, generated, store, lastError>>
  /\ UNCHANGED <<calls, observed, connectionMode, selectedNode>>

SearchFrame ==
  /\ UNCHANGED <<graph, called, cycles, visitOrder, violations, result>>
  /\ UNCHANGED <<outcome, metrics, now, generated, store, lastError>>
  /\ UNCHANGED <<calls, observed, connectionMode, selectedNode>>

\* lines 278-282 and 668-672: one position of the loop over graph.nodes
RootStep ==
  /\ Running(machine)
  /\ machine.steps <= StepBound(graph)
  /\ machine.stack = <<>>
  /\ machine.root <= Len(graph.nodes)
  /\ machine' =
       [machine EXCEPT
          !.root = @ + 1,
          !.steps = @ + 1,
          !.stack = IF graph.nodes[machine.root].id \in machine.visited
                    THEN <<>>
                    ELSE <<[node |-> graph.nodes[machine.root].id,
                            path |-> <<>>, depth |-> 0, i |-> 0]>>]
  /\ SearchFrame

\* lines 254-267 and 657-660: the tests and insertions on entry to dfs
EnterStep ==
  /\ Running(machine)
  /\ machine.steps <= StepBound(graph)
  /\ machine.stack # <<>>
  /\ Top(machine).i = 0
  /\ LET f == Top(machine) IN
     machine' =
       IF machine.mode = "detectCycles" /\ f.node \in machine.recursionStack
       THEN LET cycleStart == IndexOf(f.path, f.node) IN
            [machine EXCEPT
               !.steps = @ + 1,
               !.stack = Pop(machine),
               !.cycles = IF cycleStart # 0
                          THEN Append(@, CycleFrom(f.path, cycleStart, f.node))
                          ELSE @]
       ELSE IF AlreadyVisited(machine, f.node)
       THEN [machine EXCEPT !.steps = @ + 1, !.stack = Pop(machine)]
       ELSE [machine EXCEPT
               !.steps = @ + 1,
               !.stack = Advanced(machine),
               !.visited = @ \cup {f.node},
               !.recursionStack = IF machine.mode = "detectCycles"
                                  THEN @ \cup {f.node} ELSE @,
               !.maxDepth = IF machine.mode = "calculateMaxDepth"
                            THEN Max(@, f.depth) ELSE @]
  /\ SearchFrame

\* lines 269-272 and 662-665: the call of dfs on the next neighbor
NeighborStep ==
  /\ Running(machine)
  /\ machine.steps <= StepBound(graph)
  /\ machine.stack # <<>>
  /\ LET f == Top(machine)
         neighbors == AdjGet(BuildAdj(graph), f.node)
     IN /\ f.i >= 1
        /\ f.i <= Len(neighbors)
        /\ machine' =
             [machine EXCEPT
                !.steps = @ + 1,
                !.stack = Append(Advanced(machine),
                                 [node |-> neighbors[f.i],
                                  path |-> Append(f.path, f.node),
                                  depth |-> f.depth + 1, i |-> 0])]
  /\ SearchFrame

\* lines 274-275 and 666: the loop over the neighbors is over, dfs returns
ReturnStep ==
  /\ Running(machine)
  /\ machine.steps <= StepBound(graph)
  /\ machine.stack # <<>>
  /\ LET f == Top(machine) IN
     /\ f.i > Len(AdjGet(BuildAdj(graph), f.node))
     /\ machine' = [machine EXCEPT
                      !.steps = @ + 1,
                      !.stack = Pop(machine),
                      !.recursionStack = @ \ {f.node}]
  /\ SearchFrame

\* lines 284 and 674: the loop over graph.nodes is over, the result returns
FinishSearch ==
  /\ Running(machine)
  /\ machine.steps <= StepBound(graph)
  /\ machine.stack = <<>>
  /\ machine.root > Len(graph.nodes)
  /\ machine' = [machine EXCEPT !.steps = @ + 1, !.mode = "returned"]
  /\ called' = machine.mode
  /\ UNCHANGED <<graph, cycles, visitOrder, violations, result>>
  /\ UNCHANGED <<outcome, metrics, now, generated, store, lastError>>
  /\ UNCHANGED <<calls, observed, connectionMode, selectedNode>>

InitSearch ==
  /\ \E k \in 0..Len(IdOrder),
        shapes \in SeqsUpTo(EdgeShapes(NodeIds, EdgeType), MaxSearchEdges) :
       graph = [nodes |-> DefaultNodes(k), edges |-> MkEdges(shapes)]
  /\ NothingCalled

NextSearch ==
  \/ \E mode \in SearchModes : StartSearch(mode)
  \/ RootStep
  \/ EnterStep
  \/ NeighborStep
  \/ ReturnStep
  \/ FinishSearch

SpecSearch == InitSearch /\ [][NextSearch]_vars

\* C21: on every graph both searches return, after at most StepBound steps,
\* without reading anything that is not there, and what they return is
\* what detectCycles and calculateMaxDepth compute; until they return a
\* step is always possible.
C21_SearchesTerminate ==
  /\ machine.steps <= StepBound(graph)
  /\ Running(machine) =>
       \/ machine.stack = <<>>
       \/ Top(machine).i <= Len(AdjGet(BuildAdj(graph), Top(machine).node)) + 1
  /\ called = "detectCycles" => machine.cycles = detectCycles(graph)
  /\ called = "calculateMaxDepth" => machine.maxDepth = calculateMaxDepth(graph)

\* a search returned on a graph with a dependency cycle, a self-loop and an
\* edge from a node to an id that is no node
C21_Witness ==
  /\ machine.mode = "returned"
  /\ called = "calculateMaxDepth"
  /\ ~DependencyDAG(graph)
  /\ \E i \in DepEdgeIdx(graph) :
       /\ HasNode(graph, graph.edges[i].source)
       /\ ~HasNode(graph, graph.edges[i].target)
  /\ machine.maxDepth = 1

\* ------------------------------------------------------------------------
\* validateNode on one node (src/index.tsx:287-334): every type, every
\* layer, and names built from a short stem and an ending
\* ------------------------------------------------------------------------

MaxStemLen == 2

StemChars == {"a", " "}

NamePaymentPort ==
  <<"P", "a", "y", "m", "e", "n", "t", "P", "o", "r", "t">>

Endings ==
  {<<>>, SuffixPort, SuffixAdapter, SuffixUseCase,
   <<"p", "o", "r", "t">>, <<"P", "o", "r">>, <<"P", "o", "r", "t", "s">>,
   <<"a", "d", "a", "p", "t", "e", "r">>,
   <<"U", "s", "e", "c", "a", "s", "e">>,
   <<"G", "a", "t", "e", "w", "a", "y">>}

NodeNames ==
  {stem \o ending : stem \in SeqsUpTo(StemChars, MaxStemLen), ending \in Endings}
    \cup {NamePaymentGateway, NamePaymentPort}

InitNode ==
  /\ \E name \in NodeNames, type \in NodeType, layer \in LayerType :
       graph = [nodes |-> <<[id |-> "A", name |-> name,
                             type |-> type, layer |-> layer]>>,
                edges |-> <<>>]
  /\ NothingCalled

\* line 198: validateNode(node) on the node of the graph
ValidateNodeCall ==
  /\ called = "none"
  /\ called' = "validateNode"
  /\ violations' = validateNode(graph.nodes[1])
  /\ UNCHANGED <<graph, cycles, visitOrder, result>>
  /\ UNCHANGED others

NextNode == ValidateNodeCall \/ ValidateGraphCall

SpecNode == InitNode /\ [][NextNode]_vars

\* name = prefix + suffix for some prefix
HasSuffix(name, suffix) ==
  \E k \in 0..Len(name) : SubSeq(name, k + 1, Len(name)) = suffix

SuffixNeeded(type) ==
  CASE type = "port" -> SuffixPort
    [] type = "adapter" -> SuffixAdapter
    [] type = "usecase" -> SuffixUseCase
    [] OTHER -> <<>>

IsNamingFinding(v) == v.type = "naming_violation"

\* C22: validateNode reports a naming finding for a node exactly when the
\* node is a port, an adapter or a use case and its name does not end with
\* Port, Adapter, UseCase respectively; there is then exactly one, it is a
\* warning for that node and its message holds the suffix. A port named
\* PaymentGateway gets one, a port named PaymentPort none, a controller or
\* an entity never.
C22_NamingWarningIffSuffixMissing ==
  called = "validateNode" =>
    LET node == graph.nodes[1]
        naming == SelectSeq(violations, IsNamingFinding)
        needed == /\ node.type \in {"port", "adapter", "usecase"}
                  /\ ~HasSuffix(node.name, SuffixNeeded(node.type))
    IN /\ Len(naming) = (IF needed THEN 1 ELSE 0)
       /\ \A i \in 1..Len(naming) :
            /\ naming[i].severity = "warning"
            /\ naming[i].nodeId = node.id
            /\ naming[i].message[2] = SuffixNeeded(node.type)
       /\ \A i \in 1..Len(violations) :
            violations[i].severity = "error" => ~IsNamingFinding(violations[i])
       /\ node.type = "port" /\ node.name = NamePaymentGateway => Len(naming) = 1
       /\ node.type = "port" /\ node.name = NamePaymentPort => Len(naming) = 0
       /\ node.type \in {"controller", "entity"} => Len(naming) = 0

\* the port named PaymentGateway got its warning
C22_Witness ==
  /\ called = "validateNode"
  /\ graph.nodes[1].type = "port"
  /\ graph.nodes[1].name = NamePaymentGateway
  /\ \E i \in 1..Len(violations) :
       IsNamingFinding(violations[i]) /\ violations[i].severity = "warning"

\* a name with no character other than white space
Blank(name) == \A i \in 1..Len(name) : name[i] = " "

\* C23: a node whose name is empty or blank gets a validation_error of
\* severity error from node validation, and a graph that holds such a node
\* is not valid.
C23_BlankNameIsValidationError ==
  /\ called = "validateNode" /\ Blank(graph.nodes[1].name) =>
       \E i \in 1..Len(violations) :
         /\ violations[i].type = "validation_error"
         /\ violations[i].severity = "error"
         /\ violations[i].nodeId = graph.nodes[1].id
  /\ called = "validateGraph" /\ Blank(graph.nodes[1].name) =>
       ~result.isValid

\* ------------------------------------------------------------------------
\* calculateMetrics on graphs of many nodes and edges (src/index.tsx:621-638):
\* the quotient of line 633 in double arithmetic
\* ------------------------------------------------------------------------

MaxRatioNodes == 11

MaxRatioEdges == 15

\* n entity nodes with the ids 1, 2, ...
RatioNodes(n) == [i \in 1..n |-> MkNode(ToString(i), "entity", "domain")]

\* e edges of one type round the ids 1, 2, 3
RatioEdges(e, type) ==
  MkEdges([j \in 1..e |->
             [source |-> ToString(((j - 1) % 3) + 1),
              target |-> ToString((j % 3) + 1), type |-> type]])

InitRatio ==
  /\ \E n \in 0..MaxRatioNodes, e \in 0..MaxRatioEdges, type \in EdgeType :
       graph = [nodes |-> RatioNodes(n), edges |-> RatioEdges(e, type)]
  /\ NothingCalled

NextRatio == CalculateMetricsCall

SpecRatio == InitRatio /\ [][NextRatio]_vars

\* a - b for two digit lists of one length, 13 digits at a time, as far
\* as it matters: a difference of more than ten thousand in size is kept at
\* ten thousand, and from there on it only grows
RECURSIVE DifferenceFrom(_, _, _, _)
DifferenceFrom(a, b, i, d) ==
  IF i > Len(a) THEN d
  ELSE LET w == IF Len(a) - i + 1 < 13 THEN Len(a) - i + 1 ELSE 13
           t == d * 2^w + ValueOf(SubSeq(a, i, i + w - 1))
                        - ValueOf(SubSeq(b, i, i + w - 1))
       IN DifferenceFrom(a, b, i + w,
            IF t > 10000 THEN 10000
            ELSE IF t < 0 - 10000 THEN 0 - 10000 ELSE t)

Difference(a, b) ==
  LET len == Max(Len(a), Len(b))
  IN DifferenceFrom(Zeros(len - Len(a)) \o a, Zeros(len - Len(b)) \o b, 1, 0)

\* x is a double nearest to the quotient e / n of naturals: with m the
\* significand of x as a natural, x = m * 2^(x.exp - 52), and
\* |x - e / n| <= 2^(x.exp - 53), that is |2 * m * n - e * 2^(53 - x.exp)| <= n
NearestToQuotient(x, e, n) ==
  IF e = 0 THEN x = Float64Zero
  ELSE /\ Len(x.bits) = Precision
       /\ x.bits[1] = 1
       /\ LET d == Difference(TimesFrom(x.bits, 2 * n, Precision, 0),
                              BitsOf(e) \o Zeros(Precision - x.exp))
          IN d <= n /\ 0 - d <= n

EmptyGraphMetrics ==
  (called = "calculateMetrics" /\ graph.nodes = <<>> /\ graph.edges = <<>>) =>
    /\ metrics.complexity = Float64Zero
    /\ metrics.maxDepth = 0
    /\ metrics.cycleCount = 0

MaxCompleteEdges == 2

\* the nodes with the ids of the list s, in that order
NodesInOrder(s) ==
  [i \in 1..Len(s) |->
     MkNode(s[i], DefaultType(s[i]), getExpectedLayer(DefaultType(s[i])))]

InitComplete ==
  /\ \E s \in DistinctIdLists \cup {<<>>},
        shapes \in SeqsUpTo(EdgeShapes(NodeIds, EdgeType), MaxCompleteEdges) :
       graph = [nodes |-> NodesInOrder(s), edges |-> MkEdges(shapes)]
  /\ NothingCalled

NextComplete == DetectCyclesCall \/ ValidateGraphCall

SpecComplete == InitComplete /\ [][NextComplete]_vars

\* some directed cycle of dependency edges runs through nodes of g only
CycleAmongNodes(g) ==
  \E s \in DistinctIdLists :
    /\ \A i \in 1..Len(s) : HasNode(g, s[i])
    /\ ClosedWalk(g, s)

\* C25: when the dependency edges between nodes of the graph contain a
\* directed cycle, detectCycles returns a non-empty list and validateGraph
\* returns isValid = FALSE with a circular_dependency error of severity
\* error, in whatever order the nodes and the edges are listed.
C25_CycleDetectionComplete ==
  /\ (called = "detectCycles" /\ CycleAmongNodes(graph)) => Len(cycles) > 0
  /\ (called = "validateGraph" /\ CycleAmongNodes(graph)) =>
       /\ ~result.isValid
       /\ \E i \in 1..Len(result.errors) :
            /\ result.errors[i].type = "circular_dependency"
            /\ result.errors[i].severity = "error"

\* a cycle A -> B -> A was reported in a graph of three nodes whose node
\* list starts with C
C25_Witness ==
  /\ called = "validateGraph"
  /\ Len(graph.nodes) = 3
  /\ graph.nodes[1].id = "C"
  /\ DepEdge(graph, "A", "B") /\ DepEdge(graph, "B", "A")
  /\ ~DepEdge(graph, "C", "C")
  /\ ~result.isValid
  /\ \E i \in 1..Len(result.errors) : result.errors[i].type = "circular_dependency"

CircularRejected ==
  called = "connectNodes" /\ lastError.message = "Circular dependency detected"

\* C26: when execute is rejected for a circular dependency, the stored node
\* list and edge list are those from before the call, element for element
\* and in the same order, and no stored edge has the id of the new edge.
C26_RollbackIsExact ==
  CircularRejected =>
    /\ store.nodes = graph.nodes
    /\ store.edges = graph.edges
    /\ ~HasEdge(store, lastError.id)

\* a connect was rejected on a store that held an edge with the endpoints
\* of the rejected one
C26_Witness ==
  /\ CircularRejected
  /\ Len(store.edges) >= 1
  /\ \E i \in 1..Len(store.edges) :
       /\ store.edges[i].source = store.edges[i].target
       /\ HasNode(store, store.edges[i].source)
       /\ store.edges[i].type = "implements"

\* ------------------------------------------------------------------------
\* ConnectNodesUseCase.execute one await at a time (src/index.tsx:1931-1951)
\* on an InMemoryGraphAdapter with the listener of GraphFirstIDE registered
\* (1980-1996). A call runs until its next await; its continuation is a
\* microtask, and microtasks run first in, first out. All awaited promises
\* are already settled, so a call that an event handler starts is over
\* before the next event: calls overlap only when one task starts them.
\*   calls     the calls of execute, in the order they started; ticks is
\*             the number of continuations a call has run
\*   observed  the graphs handed out: to the listener when it is notified
\*             (updateGraph calls getGraph at once) and to execute
\*   graph     the stored graph before the first call
\* ------------------------------------------------------------------------

MaxOverlapCalls == 2

MaxOverlapEdges == 1

\* the value of `edge_${Date.now()}_${Math.random()...}` (line 1933): an id
\* that no stored edge and no earlier call has
FreshEdgeId == EdgeIdOf(MaxOverlapEdges + Len(calls) + 1)

Awaiting == {"addEdge", "getGraph", "detectCycles", "removeEdge"}

Active(c) == c.pc \in Awaiting

\* the microtask queue is first in, first out: the next continuation is that
\* of the active call that has run the fewest, the earliest started first
IsNextMicrotask(i) ==
  /\ i \in 1..Len(calls)
  /\ Active(calls[i])
  /\ \A j \in 1..Len(calls) :
       Active(calls[j]) =>
         \/ calls[j].ticks > calls[i].ticks
         \/ calls[j].ticks = calls[i].ticks /\ j >= i

\* lines 1571-1573 with 1981-1982: every listener is called, and updateGraph
\* calls getGraph before its first await
Notified(g) == {[by |-> "listener", graph |-> g]}

OverlapFrame ==
  /\ UNCHANGED <<graph, cycles, visitOrder, violations, result>>
  /\ UNCHANGED <<outcome, metrics, now, generated, lastError>>
  /\ UNCHANGED <<machine, connectionMode, selectedNode>>

\* lines 1932-1939 and addEdge up to its return (1591-1598): the edge is
\* pushed and the listeners are notified before execute first awaits. A new
\* call starts in the task of the calls that have not yet resumed, or when
\* no call is in flight.
StartExecute(sourceId, targetId, type) ==
  /\ Len(calls) < MaxOverlapCalls
  /\ \A j \in 1..Len(calls) : ~Active(calls[j]) \/ calls[j].ticks = 0
  /\ LET edge == [id |-> FreshEdgeId, source |-> sourceId,
                  target |-> targetId, type |-> type]
         added == addEdge(store, edge)
         call == [edge |-> edge, ticks |-> 0, snapshot |-> EmptyStore,
                  found |-> 0,
                  overlaps |-> \E j \in 1..Len(calls) : Active(calls[j]),
                  pc |-> IF added.error # NoError THEN "failed" ELSE "addEdge"]
     IN /\ calls' = Append(calls, call)
        /\ store' = added.graph
        /\ observed' = IF added.error # NoError THEN observed
                       ELSE observed \cup Notified(added.graph)
  /\ called' = "execute"
  /\ OverlapFrame

\* line 1942: const graph = await this.graphAdapter.getGraph()
ResumeAfterAddEdge(i) ==
  /\ IsNextMicrotask(i)
  /\ calls[i].pc = "addEdge"
  /\ calls' = [calls EXCEPT ![i].pc = "getGraph", ![i].ticks = @ + 1,
                            ![i].snapshot = store]
  /\ observed' = observed \cup {[by |-> "execute", graph |-> store]}
  /\ called' = "getGraph"
  /\ UNCHANGED store
  /\ OverlapFrame

\* line 1943: const cycles = await this.validationAdapter.detectCycles(graph)
ResumeAfterGetGraph(i) ==
  /\ IsNextMicrotask(i)
  /\ calls[i].pc = "getGraph"
  /\ calls' = [calls EXCEPT ![i].pc = "detectCycles", ![i].ticks = @ + 1,
                            ![i].found = Len(detectCyclesStore(calls[i].snapshot))]
  /\ called' = "detectCycles"
  /\ UNCHANGED <<store, observed>>
  /\ OverlapFrame

\* lines 1945-1950: removeEdge up to its return (1600-1604), or return edge
ResumeAfterDetectCycles(i) ==
  /\ IsNextMicrotask(i)
  /\ calls[i].pc = "detectCycles"
  /\ IF calls[i].found > 0
     THEN \E r \in {removeEdge(store, calls[i].edge.id).graph} :
            /\ store' = r
            /\ observed' = observed \cup Notified(r)
            /\ calls' = [calls EXCEPT ![i].pc = "removeEdge", ![i].ticks = @ + 1]
     ELSE /\ calls' = [calls EXCEPT ![i].pc = "returned", ![i].ticks = @ + 1]
          /\ UNCHANGED <<store, observed>>
  /\ called' = "removeEdge"
  /\ OverlapFrame

\* line 1947: throw new Error(`Circular dependency detected: ...`)
ResumeAfterRemoveEdge(i) ==
  /\ IsNextMicrotask(i)
  /\ calls[i].pc = "removeEdge"
  /\ calls' = [calls EXCEPT ![i].pc = "rejected", ![i].ticks = @ + 1]
  /\ called' = "throw"
  /\ UNCHANGED <<store, observed>>
  /\ OverlapFrame

\* the adapter holds a graph of nodes and of edges between ids (1549-1550)
InitOverlap ==
  /\ NoCallYet
  /\ \E k \in 0..Len(IdOrder),
        shapes \in SeqsUpTo(EdgeShapes(NodeIds, EdgeType), MaxOverlapEdges) :
       store = [nodes |-> DefaultNodes(k), edges |-> MkEdges(shapes)]
  /\ graph = store

NextOverlap ==
  \/ \E sourceId \in NodeIds, targetId \in NodeIds, type \in EdgeType :
       StartExecute(sourceId, targetId, type)
  \/ \E i \in 1..MaxOverlapCalls :
       \/ ResumeAfterAddEdge(i)
       \/ ResumeAfterGetGraph(i)
       \/ ResumeAfterDetectCycles(i)
       \/ ResumeAfterRemoveEdge(i)

SpecOverlap == InitOverlap /\ [][NextOverlap]_vars

\* call i was rejected for a circular dependency: its edge was rolled back
RolledBack(i) == i \in 1..Len(calls) /\ calls[i].pc \in {"removeEdge", "rejected"}

\* C27: the edge of a connect that ends up rejected is in no graph that a
\* listener is handed: no listener is notified, and its getGraph returns
\* nothing, while the stored graph holds that edge.
C27_RejectedConnectNeverObserved ==
  \A i \in 1..Len(calls) :
    RolledBack(i) =>
      \A o \in observed :
        o.by = "listener" => ~HasEdge(o.graph, calls[i].edge.id)

\* g with one more edge
WithEdge(g, edge) == [g EXCEPT !.edges = Append(@, edge)]

Completed(c) == c.pc \in {"returned", "rejected", "failed"}

\* the two calls overlap, both are over, their edges are dependency edges
\* between stored nodes, and together, not alone, they close a cycle in the
\* graph the calls started on
TogetherCloseACycle ==
  /\ Len(calls) = 2
  /\ calls[2].overlaps
  /\ Completed(calls[1]) /\ Completed(calls[2])
  /\ calls[1].edge.type = "dependency" /\ calls[2].edge.type = "dependency"
  /\ AllResolved(WithEdge(WithEdge(graph, calls[1].edge), calls[2].edge))
  /\ DependencyDAG(WithEdge(graph, calls[1].edge))
  /\ DependencyDAG(WithEdge(graph, calls[2].edge))
  /\ ~DependencyDAG(WithEdge(WithEdge(graph, calls[1].edge), calls[2].edge))

\* C28: of two overlapping connects whose dependency edges close a cycle
\* together and not alone, exactly one is rejected and the edge of the
\* other stays in the graph; the graph is acyclic once both are over.
C28_ExactlyOneOverlappingConnectRejected ==
  TogetherCloseACycle =>
    /\ \/ /\ calls[1].pc = "rejected" /\ calls[2].pc = "returned"
          /\ HasEdge(store, calls[2].edge.id)
       \/ /\ calls[2].pc = "rejected" /\ calls[1].pc = "returned"
          /\ HasEdge(store, calls[1].edge.id)
    /\ DependencyDAG(store)

\* the half of C28 that holds: once both calls are over the graph is
\* acyclic, and the two calls are not both accepted
C28_AcyclicOnceBothCompleted ==
  TogetherCloseACycle =>
    /\ DependencyDAG(store)
    /\ ~(calls[1].pc = "returned" /\ calls[2].pc = "returned")

\* ------------------------------------------------------------------------
\* The detectCycles that returns strings (src/index.tsx:1622-1658), called
\* by calculateMetrics (1692) for cycleCount (1730)
\* ------------------------------------------------------------------------

MaxPathEdges == 3

\* lines 1692 and 1730: cycleCount: cycles.length
cycleCount(g) == Len(detectCyclesStore(g))

InitPaths ==
  /\ \E k \in 0..Len(IdOrder),
        shapes \in SeqsUpTo(EdgeShapes(NodeIds, EdgeType), MaxPathEdges) :
       graph = [nodes |-> DefaultNodes(k), edges |-> MkEdges(shapes)]
  /\ NothingCalled

DetectCyclesStoreCall ==
  /\ called = "none"
  /\ called' = "detectCyclesStore"
  /\ cycles' = detectCyclesStore(graph)
  /\ UNCHANGED <<graph, visitOrder, violations, result>>
  /\ UNCHANGED others

NextPaths == DetectCyclesStoreCall

SpecPaths == InitPaths /\ [][NextPaths]_vars

\* id lies on a directed cycle of dependency edges
OnDependencyCycle(g, id) ==
  \E s \in DistinctIdLists :
    ClosedWalk(g, s) /\ \E i \in 1..Len(s) : s[i] = id

\* the path c follows dependency edges and ends at an id it has already
\* passed, which lies on a cycle
ClosesACycle(g, c) ==
  /\ Len(c) >= 2
  /\ OnDependencyCycle(g, c[Len(c)])
  /\ \A j \in 1..(Len(c) - 1) : DepEdge(g, c[j], c[j + 1])
  /\ \E j \in 1..(Len(c) - 1) : c[j] = c[Len(c)]

\* C29: every entry that the string-returning detectCycles reports is a
\* path along dependency edges back to an id on a directed cycle, so
\* cycleCount counts no path that closes no cycle.
C29_EveryEntryClosesACycle ==
  called = "detectCyclesStore" =>
    /\ \A i \in 1..Len(cycles) : ClosesACycle(graph, cycles[i])
    /\ cycleCount(graph) =
         Cardinality({i \in 1..Len(cycles) : ClosesACycle(graph, cycles[i])})

\* ------------------------------------------------------------------------
\* The editor (src/index.tsx:842-972 and 1133-1302): the React state graph,
\* error (lastError) and selectedNode of GraphFirstProgrammingIDE and the
\* state connectionMode of GraphVisualization. An action is one user event;
\* React renders and binds the handlers anew after each, so a handler reads
\* the state the previous event left. store is the graph before the last
\* event.
\* ------------------------------------------------------------------------

MaxEditorNodes == 2

MaxEditorEdges == 2

MaxEditorClock == 1

\* the node types dropped on the canvas: the two between which the click
\* handler chooses implements (adapter to port); every other pair of types
\* gets dependency, as port to adapter does
EditorTypes == {"adapter", "port"}

EmptyGraph == [nodes |-> <<>>, edges |-> <<>>]

EdgeExists == "Edge already exists between these nodes"

\* line 1156: type.charAt(0).toUpperCase() + type.slice(1)
Capitalized(type) ==
  CASE type = "port" -> <<"P", "o", "r", "t">>
    [] type = "adapter" -> <<"A", "d", "a", "p", "t", "e", "r">>
    [] type = "usecase" -> <<"U", "s", "e", "c", "a", "s", "e">>
    [] type = "controller" -> <<"C", "o", "n", "t", "r", "o", "l", "l", "e", "r">>
    [] type = "entity" -> <<"E", "n", "t", "i", "t", "y">>

\* lines 1155-1186: the new node, appended
handleNodeCreate(g, type, t) ==
  LET count == Cardinality({i \in 1..Len(g.nodes) : g.nodes[i].type = type})
      newNode == [id |-> type \o "_" \o ToString(t),
                  name |-> Append(Capitalized(type), ToString(count + 1)),
                  type |-> type,
                  layer |-> getExpectedLayer(type)]
  IN [g EXCEPT !.nodes = Append(@, newNode)]

\* graph.edges.find(e => e.source === sourceId && e.target === targetId &&
\* e.type === type) is defined
ExistingEdge(g, sourceId, targetId, type) ==
  \E i \in 1..Len(g.edges) :
    /\ g.edges[i].source = sourceId
    /\ g.edges[i].target = targetId
    /\ g.edges[i].type = type

NewEdge(sourceId, targetId, type, t) ==
  [id |-> sourceId \o "_" \o targetId \o "_" \o type \o "_" \o ToString(t),
   source |-> sourceId, target |-> targetId, type |-> type]

handleEdgeCreateUnchecked(g, sourceId, targetId, type, t) ==
  Done([g EXCEPT !.edges = Append(@, NewEdge(sourceId, targetId, type, t))])

\* lines 1196-1224
handleEdgeCreate(g, sourceId, targetId, type, t) ==
  IF ExistingEdge(g, sourceId, targetId, type)
  THEN Rejected(g, EdgeExists, "none")
  ELSE Done([g EXCEPT !.edges = Append(@, NewEdge(sourceId, targetId, type, t))])

\* lines 951-953
EdgeTypeFor(sourceType, targetType) ==
  IF sourceType = "adapter" /\ targetType = "port"
  THEN "implements" ELSE "dependency"

EditorFrame ==
  /\ UNCHANGED <<cycles, visitOrder, violations, outcome>>
  /\ UNCHANGED <<machine, calls, observed>>

InitEditor ==
  /\ NoCallYet
  /\ graph = EmptyGraph
  /\ store = EmptyGraph

\* a node type is dropped on the canvas: onNodeCreate(type, position)
HandleNodeCreateCall(type) ==
  /\ Len(graph.nodes) < MaxEditorNodes
  /\ graph' = handleNodeCreate(graph, type, now)
  /\ store' = graph
  /\ lastError' = NoError
  /\ called' = "handleNodeCreate"
  /\ UNCHANGED <<connectionMode, selectedNode, now, result, metrics, generated>>
  /\ EditorFrame

\* lines 945-964: a click on the node at position i, with or without shift
NodeClick(i, shiftKey) ==
  /\ i \in 1..Len(graph.nodes)
  /\ store' = graph
  /\ LET d == graph.nodes[i] IN
     IF connectionMode # <<>>
     THEN /\ connectionMode' = <<>>
          /\ UNCHANGED selectedNode
          /\ IF connectionMode[1].sourceId # d.id
             THEN /\ \/ Len(graph.edges) < MaxEditorEdges
                     \/ ExistingEdge(graph, connectionMode[1].sourceId, d.id,
                           EdgeTypeFor(connectionMode[1].sourceType, d.type))
                  /\ \E r \in {handleEdgeCreate(graph, connectionMode[1].sourceId, d.id,
                                 EdgeTypeFor(connectionMode[1].sourceType, d.type),
                                 now)} :
                       graph' = r.graph /\ lastError' = r.error
                  /\ called' = "handleEdgeCreate"
             ELSE /\ UNCHANGED <<graph, lastError>>
                  /\ called' = "click"
     ELSE /\ UNCHANGED <<graph, lastError>>
          /\ called' = "click"
          /\ IF shiftKey
             THEN /\ connectionMode' =
                       <<[sourceId |-> d.id, sourceType |-> d.type]>>
                  /\ UNCHANGED selectedNode
             ELSE /\ selectedNode' = <<d>>
                  /\ UNCHANGED connectionMode
  /\ UNCHANGED <<now, result, metrics, generated>>
  /\ EditorFrame

\* lines 967-970: a click on the canvas
CanvasClick ==
  /\ selectedNode' = <<>>
  /\ connectionMode' = <<>>
  /\ store' = graph
  /\ called' = "click"
  /\ UNCHANGED <<graph, lastError, now, result, metrics, generated>>
  /\ EditorFrame

\* lines 1286-1302
HandleClearGraphCall ==
  /\ graph' = EmptyGraph
  /\ store' = graph
  /\ selectedNode' = <<>>
  /\ generated' = <<>>
  /\ metrics' = NoMetrics
  /\ result' = NoResult
  /\ lastError' = NoError
  /\ called' = "handleClearGraph"
  /\ UNCHANGED <<connectionMode, now>>
  /\ EditorFrame

\* time passes between two events
EditorTick ==
  /\ now < MaxEditorClock
  /\ now' = now + 1
  /\ UNCHANGED <<graph, store, called, lastError, connectionMode, selectedNode>>
  /\ UNCHANGED <<result, metrics, generated>>
  /\ EditorFrame

NextEditor ==
  \/ \E type \in EditorTypes : HandleNodeCreateCall(type)
  \/ \E i \in 1..MaxEditorNodes, shiftKey \in BOOLEAN : NodeClick(i, shiftKey)
  \/ CanvasClick
  \/ HandleClearGraphCall
  \/ EditorTick

SpecEditor == InitEditor /\ [][NextEditor]_vars

SameTriple(e, f) ==
  e.source = f.source /\ e.target = f.target /\ e.type = f.type

\* C30: whatever nodes were created, connections made and graphs cleared,
\* no two edges of the graph have the same source, target and type, no
\* edge joins a node to itself, and a request for an edge that exists
\* leaves the edge list as it was.
C30_NoDuplicateEdgeNoSelfLoop ==
  /\ \A i, j \in 1..Len(graph.edges) :
       i # j => ~SameTriple(graph.edges[i], graph.edges[j])
  /\ \A i \in 1..Len(graph.edges) :
       graph.edges[i].source # graph.edges[i].target
  /\ (called = "handleEdgeCreate" /\ lastError.message = EdgeExists) =>
       graph.edges = store.edges
  /\ (called = "handleEdgeCreate" /\ lastError = NoError) =>
       /\ Len(graph.edges) = Len(store.edges) + 1
       /\ \A i \in 1..Len(store.edges) :
            ~SameTriple(store.edges[i], graph.edges[Len(graph.edges)])

\* a second request for an edge of the graph was turned down, at a later
\* time than the first, so that the two edge ids would have differed
C30_Witness ==
  /\ called = "handleEdgeCreate"
  /\ lastError.message = EdgeExists
  /\ Len(graph.edges) >= 1
  /\ graph.edges = store.edges
  /\ \A i \in 1..Len(graph.edges) :
       graph.edges[i].id # NewEdge(graph.edges[i].source, graph.edges[i].target,
                                   graph.edges[i].type, now).id

====
